---- MODULE Spec2Model ----
(***************************************************************************)
(* A model of the reference engine of Cite Forge                           *)
(* (src/src/core/references.ts): parseWikitext, applyRenames,              *)
(* normalizeRefKeys, applyDedupe, assignLocations, buildReplacementPlan,   *)
(* applyReplacements and collapseRefsAndRp, run as the pipeline of         *)
(* transformWikitext.                                                      *)
(*                                                                         *)
(* Wikitext is a sequence of atoms.  An atom is the text one of the        *)
(* engine's regular expressions matches as a unit, together with the raw   *)
(* form it was written in, or a piece of text none of them matches:        *)
(*   txt    a run of ordinary text             raw = the text              *)
(*   ws     one blank                          nl   one line break         *)
(*   com    an HTML comment                    raw = its text              *)
(*   full   <ref ATTRS>BODY</ref>              raw = how ATTRS is written  *)
(*   self   <ref ATTRS />                      raw = how the tag is written*)
(*   r      {{r|PARAMS}}                       rp   {{rp|PARAMS}}          *)
(*   lopen  {{reflist  or  {{reflist|refs=     lclose  the closing }}      *)
(* Offsets of the source are indices into that sequence (0-based, as in    *)
(* the code), so a replacement {start, end, text} replaces the atoms       *)
(* start .. end-1.  A reference body is a sequence of characters.          *)
(***************************************************************************)
EXTENDS Integers, Sequences, FiniteSets, TLC

VARIABLES wikitext, options, pc, ctx, deduped, plan, result, source, pass,
          references, refs, pendingChanges, editingRefId, saved, given, scan

\* The state of the inspector panel, and what parseReferences returned.
panel == <<references, refs, pendingChanges, editingRefId, saved>>

\* given is the list of replacements handed to collapseReplacements or
\* applyReplacements when they are called on their own; scan is the state of
\* the loop of findTemplates (the index i and the matches pushed so far).
vars == <<wikitext, options, pc, ctx, deduped, plan, result, source, pass, panel, given, scan>>

(***************************************************************************)
(* Generic helpers on sequences.                                           *)
(***************************************************************************)
Null == ""

RECURSIVE Flatten(_)
Flatten(ss) == IF ss = <<>> THEN <<>> ELSE Head(ss) \o Flatten(Tail(ss))

RECURSIVE Join(_, _)
Join(ss, sep) ==
    IF ss = <<>> THEN <<>>
    ELSE IF Len(ss) = 1 THEN Head(ss)
    ELSE Head(ss) \o sep \o Join(Tail(ss), sep)

Range(s) == {s[i] : i \in 1..Len(s)}

Some(s, P(_)) == \E i \in 1..Len(s) : P(s[i])

\* Array.prototype.find: the first element satisfying P, or Null.
Find(s, P(_), none) ==
    IF Some(s, P) THEN s[CHOOSE i \in 1..Len(s) : P(s[i]) /\ \A j \in 1..(i-1) : ~P(s[j])]
    ELSE none

MapSeq(s, F(_)) == [i \in 1..Len(s) |-> F(s[i])]

Max2(a, b) == IF a >= b THEN a ELSE b

(***************************************************************************)
(* Atoms.                                                                  *)
(***************************************************************************)
Atom(k, name, group, raw, body, params) ==
    [k |-> k, name |-> name, group |-> group, raw |-> raw, body |-> body, params |-> params]

Txt(v) == Atom("txt", Null, Null, v, <<>>, <<>>)
Ws == Atom("ws", Null, Null, " ", <<>>, <<>>)
Nl == Atom("nl", Null, Null, "\n", <<>>, <<>>)
Com(v) == Atom("com", Null, Null, v, <<>>, <<>>)
FullRef(name, group, raw, body) == Atom("full", name, group, raw, body, <<>>)
SelfRef(name, group, raw) == Atom("self", name, group, raw, <<>>, <<>>)
RTpl(params) == Atom("r", Null, Null, "r", <<>>, params)
RpTpl(params) == Atom("rp", Null, Null, "rp", <<>>, params)
LOpen(name, raw) == Atom("lopen", name, Null, raw, <<>>, <<>>)
LClose == Atom("lclose", Null, Null, "}}", <<>>, <<>>)

\* A template parameter KEY=VALUE: kb is the key without its trailing digits,
\* ki the number those digits spell (0: no digits); kb = "" and ki = 0 is a
\* positional parameter, kb = "=" the parameter written "=VALUE".
Param(kb, ki, val) == [kb |-> kb, ki |-> ki, val |-> val]

IsSpace(c) == c \in {" ", "\n"}

RECURSIVE TrimLeft(_)
TrimLeft(s) == IF s # <<>> /\ IsSpace(Head(s)) THEN TrimLeft(Tail(s)) ELSE s

RECURSIVE TrimRight(_)
TrimRight(s) ==
    IF s # <<>> /\ IsSpace(s[Len(s)]) THEN TrimRight(SubSeq(s, 1, Len(s) - 1)) ELSE s

\* String.prototype.trim
Trim(s) == TrimRight(TrimLeft(s))

(***************************************************************************)
(* parseRTemplateEntries: the parameters of one {{r|...}} in order, each   *)
(* with its kind and the logical index of the name it belongs to.          *)
(***************************************************************************)
NameKeys == {"", "name", "n"}
GroupKeys == {"grp", "group", "g"}
PageKeys == {"page", "p"}
PagesKeys == {"pages", "pp"}
AtKeys == {"at", "location", "loc"}

RTemplateEntry(kb, ki, value, kind, index, pos) ==
    [kb |-> kb, ki |-> ki, value |-> value, kind |-> kind, index |-> index, pos |-> pos]

IsName(e) == e.kind = "name"

\* key || null: an entry has no key when the parameter is positional or "=VALUE".
HasKey(e) == e.kb # "" \/ e.ki # 0

parseRTemplateEntriesStep(st, p) ==
    LET kb == IF p.kb = "=" THEN "" ELSE p.kb
        kind == IF kb \in NameKeys THEN "name"
                ELSE IF kb \in GroupKeys THEN "group"
                ELSE IF kb \in PageKeys THEN "page"
                ELSE IF kb \in PagesKeys THEN "pages"
                ELSE IF kb \in AtKeys THEN "at"
                ELSE "other"
        counted == IF kind = "name" /\ p.ki = 0 THEN st.nameCounter + 1 ELSE st.nameCounter
        idx == IF p.ki > 0 THEN p.ki
               ELSE IF kind = "name" THEN counted
               ELSE IF kind = "group"
                    THEN (IF st.hasGroupIndex1 /\ st.lastNameIndex > 1 THEN st.lastNameIndex ELSE 1)
               ELSE IF kind = "other" THEN Max2(st.nameCounter, 1)
               ELSE 1
        st1 == [st EXCEPT !.nameCounter = counted,
                          !.lastNameIndex = IF kind = "name" THEN idx ELSE @,
                          !.hasGroupIndex1 = IF kind = "group" /\ idx = 1 THEN TRUE ELSE @]
    IN  IF p.val = "" THEN st1
        ELSE [st1 EXCEPT !.nameCounter = IF kind = "name" /\ idx > @ THEN idx ELSE @,
                         !.entries = Append(@, RTemplateEntry(kb, p.ki, p.val, kind,
                                                   IF idx = 0 THEN 1 ELSE idx, Len(@) + 1))]

RECURSIVE parseRTemplateEntriesFrom(_, _)
parseRTemplateEntriesFrom(st, params) ==
    IF params = <<>> THEN st.entries
    ELSE parseRTemplateEntriesFrom(parseRTemplateEntriesStep(st, Head(params)), Tail(params))

parseRTemplateEntries(params) ==
    parseRTemplateEntriesFrom([entries |-> <<>>, nameCounter |-> 0, lastNameIndex |-> 0,
                               hasGroupIndex1 |-> FALSE], params)

(***************************************************************************)
(* findTemplates: the reflist templates of the text, found by counting     *)
(* brace depth from each {{NAME whose name is a reflist name.  An opening  *)
(* that is never closed yields no match and the scan goes on after its     *)
(* name.                                                                   *)
(***************************************************************************)
DEFAULT_REFLIST_TEMPLATES == {"reflist", "references"}

\* The depth loop: from offset k with the given depth, the offset just past
\* the }} that brings the depth to 0, or -1 when the text ends first.
RECURSIVE MatchClose(_, _, _)
MatchClose(text, k, depth) ==
    IF depth = 0 THEN k
    ELSE IF k >= Len(text) THEN -1
    ELSE IF text[k + 1].k = "lopen" THEN MatchClose(text, k + 1, depth + 1)
    ELSE IF text[k + 1].k = "lclose" THEN MatchClose(text, k + 1, depth - 1)
    ELSE MatchClose(text, k + 1, depth)

TemplateMatch(start, end, name, raw) == [start |-> start, end |-> end, name |-> name, raw |-> raw]

RECURSIVE findTemplatesFrom(_, _, _)
findTemplatesFrom(text, names, i) ==
    IF i >= Len(text) THEN <<>>
    ELSE IF text[i + 1].k # "lopen" \/ text[i + 1].name \notin names
         THEN findTemplatesFrom(text, names, i + 1)
    ELSE LET end == MatchClose(text, i + 1, 1)
         IN  IF end < 0 THEN findTemplatesFrom(text, names, i + 1)
             ELSE <<TemplateMatch(i, end, text[i + 1].name, text[i + 1].raw)>>
                  \o findTemplatesFrom(text, names, end)

findTemplates(text, names) == findTemplatesFrom(text, names, 0)

\* source.indexOf('{{', i): the offset of the first atom at or after offset i
\* that starts with two opening braces, -1 when there is none.
RECURSIVE IndexOfBraces(_, _)
IndexOfBraces(text, i) ==
    IF i >= Len(text) THEN -1
    ELSE IF text[i + 1].k \in {"lopen", "r", "rp"} THEN i
    ELSE IndexOfBraces(text, i + 1)

\* An iteration that, on a template that is never closed, goes back to its
\* opening braces.
findTemplatesStepRescan(text, names, st) ==
    LET idx == IndexOfBraces(text, st.i)
        a == text[idx + 1]
        end == MatchClose(text, idx + 1, 1)
    IN  IF a.k # "lopen" \/ a.name \notin names THEN [st EXCEPT !.i = idx + 1]
        ELSE IF end < 0 THEN [st EXCEPT !.i = idx]
        ELSE [i |-> end, matches |-> Append(st.matches, TemplateMatch(idx, end, a.name, a.raw))]

\* One iteration of the while loop of findTemplates that does not leave it,
\* on st = [i, matches]: the scan goes on after the braces of a template with
\* another name, after the name of a template that is never closed, after
\* the end of a template that is matched.
findTemplatesStep(text, names, st) ==
    LET idx == IndexOfBraces(text, st.i)
        a == text[idx + 1]
        end == MatchClose(text, idx + 1, 1)
    IN  IF a.k # "lopen" \/ a.name \notin names THEN [st EXCEPT !.i = idx + 1]
        ELSE IF end < 0 THEN [st EXCEPT !.i = idx + 1]
        ELSE [i |-> end, matches |-> Append(st.matches, TemplateMatch(idx, end, a.name, a.raw))]

\* tpl.params.some(p => p.name.toLowerCase() === 'refs')
HasRefsParam(tpl) == tpl.raw = "refs"

\* The offsets of the atoms between the opening and the closing of a template.
InnerOffsets(tpl) == (tpl.start + 1)..(tpl.end - 2)

\* refsParam.value, trimmed by the parameter splitter, is not empty.
RefsValueNonEmpty(text, tpl) ==
    HasRefsParam(tpl) /\ \E i \in InnerOffsets(tpl) : text[i + 1].k \notin {"ws", "nl"}

inTemplateRange(idx, templates) ==
    \E t \in 1..Len(templates) : idx >= templates[t].start /\ idx <= templates[t].end

(***************************************************************************)
(* Records.  The Map<RefKey, RefRecord> of the code is the sequence of its *)
(* records in insertion order; a record's canonical is the key of the      *)
(* record it points at (Null: not set).                                    *)
(***************************************************************************)
refKey(name, group) == group \o "::" \o name

RefUseInternal(name, group, start, end, kind, content, rTemplateId) ==
    [name |-> name, group |-> group, start |-> start, end |-> end, kind |-> kind,
     content |-> content, rTemplateId |-> rTemplateId]

RefRecord(key, name, group) ==
    [id |-> key, name |-> name, group |-> group, key |-> key, definitions |-> <<>>,
     uses |-> <<>>, ldrDefinitions |-> <<>>, canonical |-> Null, targetLocation |-> "inline"]

HasKeyRec(rs, key) == \E i \in 1..Len(rs) : rs[i].key = key

IndexOfKey(rs, key) == CHOOSE i \in 1..Len(rs) : rs[i].key = key

\* refs.get(key)
RefGet(rs, key) == rs[IndexOfKey(rs, key)]

\* ref.canonical ?? ref
CanonicalOf(rs, ref) ==
    IF ref.canonical # Null /\ HasKeyRec(rs, ref.canonical) THEN RefGet(rs, ref.canonical) ELSE ref

\* getRef of parseWikitext: the record of (name, group), created when missing;
\* every call without a name takes the next __nameless_ number.
getRef(st, name, group) ==
    LET key == IF name # Null THEN refKey(name, group)
               ELSE "__nameless_" \o ToString(st.namelessCounter)
        st1 == IF name # Null THEN st ELSE [st EXCEPT !.namelessCounter = @ + 1]
    IN  [key |-> key,
         st |-> IF HasKeyRec(st1.refs, key) THEN st1
                ELSE [st1 EXCEPT !.refs = Append(@, RefRecord(key, name, group))]]

\* extractAttr: the value of an attribute of a tag, Null when it is absent.
extractAttr(atom, attrName) == IF attrName = "name" THEN atom.name ELSE atom.group

PushUse(st, key, use, asDefinition, asUse, asLdr) ==
    LET i == IndexOfKey(st.refs, key)
    IN  [st EXCEPT !.refs[i].definitions = IF asDefinition THEN Append(@, use) ELSE @,
                   !.refs[i].uses = IF asUse THEN Append(@, use) ELSE @,
                   !.refs[i].ldrDefinitions = IF asLdr THEN Append(@, use) ELSE @]

\* A <ref ...> whose body holds further markup is written as the opening
\* tag, the atoms of the body and the closing tag </ref>.
FOpen(name, group) == Atom("fopen", name, group, "c", <<>>, <<>>)

FClose == Atom("fclose", Null, Null, "</ref>", <<>>, <<>>)

\* The offset just past the first </ref> at or after offset i, 0 when none.
RECURSIVE RefCloseEnd(_, _)
RefCloseEnd(text, i) ==
    IF i >= Len(text) THEN 0
    ELSE IF text[i + 1].k = "fclose" THEN i + 1
    ELSE RefCloseEnd(text, i + 1)

\* The characters of one atom of a body.
AtomText(a) ==
    IF a.k = "self" THEN "<ref name=" \o a.name \o " />"
    ELSE IF a.k = "r" THEN "{{r|" \o a.params[1].val \o "}}"
    ELSE a.raw

\* The characters of a piece of text, as one string.
RECURSIVE MatchedText(_)
MatchedText(atoms) ==
    IF atoms = <<>> THEN "" ELSE AtomText(Head(atoms)) \o MatchedText(Tail(atoms))

\* The loop over the matches of refFull outside the reflist templates.  The
\* match of an opening tag runs to the first </ref>, and the scan goes on
\* after the match.
RECURSIVE parseFullRefs(_, _, _, _)
parseFullRefs(text, templates, st, idx) ==
    IF idx >= Len(text) THEN st
    ELSE IF /\ text[idx + 1].k = "fopen"
            /\ RefCloseEnd(text, idx + 1) # 0
    THEN LET a == text[idx + 1]
             end == RefCloseEnd(text, idx + 1)
             g == getRef(st, extractAttr(a, "name"), extractAttr(a, "group"))
             use == RefUseInternal(a.name, a.group, idx, end, "full",
                                   <<MatchedText(SubSeq(text, idx + 2, end - 1))>>, -1)
         IN  IF inTemplateRange(idx, templates) THEN parseFullRefs(text, templates, st, end)
             ELSE parseFullRefs(text, templates, PushUse(g.st, g.key, use, TRUE, TRUE, FALSE), end)
    ELSE IF text[idx + 1].k # "full" \/ inTemplateRange(idx, templates)
         THEN parseFullRefs(text, templates, st, idx + 1)
    ELSE LET a == text[idx + 1]
             g == getRef(st, extractAttr(a, "name"), extractAttr(a, "group"))
             use == RefUseInternal(a.name, a.group, idx, idx + 1, "full", a.body, -1)
         IN  parseFullRefs(text, templates, PushUse(g.st, g.key, use, TRUE, TRUE, FALSE), idx + 1)

\* The loop over the matches of refSelf.
RECURSIVE parseSelfRefs(_, _, _, _)
parseSelfRefs(text, templates, st, idx) ==
    IF idx >= Len(text) THEN st
    ELSE IF text[idx + 1].k # "self" \/ inTemplateRange(idx, templates)
         THEN parseSelfRefs(text, templates, st, idx + 1)
    ELSE LET a == text[idx + 1]
             g == getRef(st, extractAttr(a, "name"), extractAttr(a, "group"))
             use == RefUseInternal(a.name, a.group, idx, idx + 1, "selfClosing", <<>>, -1)
         IN  parseSelfRefs(text, templates, PushUse(g.st, g.key, use, FALSE, TRUE, FALSE), idx + 1)

\* entries.filter(isName).forEach: one use per name of the template.
RECURSIVE pushRNames(_, _, _, _)
pushRNames(st, names, idx, tplId) ==
    IF names = <<>> THEN st
    ELSE LET g == getRef(st, Head(names).value, Null)
             use == RefUseInternal(Head(names).value, Null, idx, idx + 1, "templateR", <<>>, tplId)
         IN  pushRNames(PushUse(g.st, g.key, use, FALSE, TRUE, FALSE), Tail(names), idx, tplId)

\* The loop over the matches of rTemplate.
RECURSIVE parseRTemplates(_, _, _, _)
parseRTemplates(text, templates, st, idx) ==
    IF idx >= Len(text) THEN st
    ELSE IF text[idx + 1].k # "r" \/ inTemplateRange(idx, templates)
         THEN parseRTemplates(text, templates, st, idx + 1)
    ELSE LET entries == parseRTemplateEntries(text[idx + 1].params)
             tplId == Len(st.rTemplates)
             st1 == [st EXCEPT !.rTemplates =
                        Append(@, [id |-> tplId, start |-> idx, end |-> idx + 1, entries |-> entries])]
         IN  parseRTemplates(text, templates,
                             pushRNames(st1, SelectSeq(entries, IsName), idx, tplId), idx + 1)

\* The full tags inside the refs= value of one reflist template.
RECURSIVE parseLdrOf(_, _, _, _)
parseLdrOf(text, tpl, st, idx) ==
    IF idx > tpl.end - 2 THEN st
    ELSE IF text[idx + 1].k # "full" THEN parseLdrOf(text, tpl, st, idx + 1)
    ELSE LET a == text[idx + 1]
             g == getRef(st, extractAttr(a, "name"), extractAttr(a, "group"))
             use == RefUseInternal(a.name, a.group, idx, idx + 1, "full", a.body, -1)
         IN  parseLdrOf(text, tpl, PushUse(g.st, g.key, use, FALSE, FALSE, TRUE), idx + 1)

RECURSIVE parseLdrDefinitions(_, _, _)
parseLdrDefinitions(text, templates, st) ==
    IF templates = <<>> THEN st
    ELSE LET tpl == Head(templates)
             st1 == IF RefsValueNonEmpty(text, tpl) THEN parseLdrOf(text, tpl, st, tpl.start + 1)
                    ELSE st
         IN  parseLdrDefinitions(text, Tail(templates), st1)

parseWikitext(text, reflistNames) ==
    LET templates == findTemplates(text, reflistNames)
        st0 == [refs |-> <<>>, namelessCounter |-> 0, rTemplates |-> <<>>]
        st1 == parseFullRefs(text, templates, st0, 0)
        st2 == parseSelfRefs(text, templates, st1, 0)
        st3 == parseRTemplates(text, templates, st2, 0)
        st4 == parseLdrDefinitions(text, templates, st3)
    IN  [refs |-> st4.refs, templates |-> templates, rTemplates |-> st4.rTemplates]

(***************************************************************************)
(* normalizeRefKeys: recompute every key and merge the records that now    *)
(* share one.                                                              *)
(***************************************************************************)
RECURSIVE normalizeRefKeysFrom(_, _, _)
normalizeRefKeysFrom(rs, next, namelessCounter) ==
    IF rs = <<>> THEN next
    ELSE LET ref == Head(rs)
             fresh == ref.name = Null /\ ref.key = Null /\ ref.id = Null
             key == IF ref.name # Null THEN refKey(ref.name, ref.group)
                    ELSE IF ref.key # Null THEN ref.key
                    ELSE IF ref.id # Null THEN ref.id
                    ELSE "__nameless_" \o ToString(namelessCounter)
             ref1 == [ref EXCEPT !.key = key, !.id = IF @ # Null THEN @ ELSE key]
             counter1 == IF fresh THEN namelessCounter + 1 ELSE namelessCounter
         IN  IF HasKeyRec(next, key)
             THEN LET i == IndexOfKey(next, key)
                  IN  normalizeRefKeysFrom(Tail(rs),
                          [next EXCEPT ![i].definitions = @ \o ref1.definitions,
                                       ![i].ldrDefinitions = @ \o ref1.ldrDefinitions,
                                       ![i].uses = @ \o ref1.uses],
                          counter1)
             ELSE normalizeRefKeysFrom(Tail(rs), Append(next, ref1), counter1)

normalizeRefKeys(rs) == normalizeRefKeysFrom(rs, <<>>, 0)

(***************************************************************************)
(* Rename maps.  A Record<string, string | null> is the sequence of its    *)
(* entries <<key, value>> in Object.entries order; the value Null is null, *)
(* a key without entry is undefined.                                       *)
(***************************************************************************)
MapHas(m, k) == \E i \in 1..Len(m) : m[i][1] = k

MapGet(m, k) == m[CHOOSE i \in 1..Len(m) : m[i][1] = k][2]

\* normalizeRenameMap: entries with an empty key or mapping a name to itself are dropped.
normalizeRenameMapKeeps(e) == e[1] # Null /\ e[2] # e[1]

normalizeRenameMap(rename) == SelectSeq(rename, normalizeRenameMapKeeps)

\* The first loop of applyRenames, on one record.  applied is appliedNameless.
applyRenamesFirst(ref, rename, renameNameless) ==
    IF ref.name # Null
    THEN [ref |-> IF MapHas(rename, ref.name)
                  THEN [ref EXCEPT !.name = MapGet(rename, ref.name)]
                  ELSE ref,
          applied |-> {}]
    ELSE LET byId == IF MapHas(renameNameless, ref.id) THEN MapGet(renameNameless, ref.id) ELSE Null
             hit == IF byId # Null THEN ref.id
                    ELSE IF MapHas(renameNameless, ref.key) THEN ref.key
                    ELSE Null
         IN  IF hit = Null THEN [ref |-> ref, applied |-> {}]
             ELSE IF MapGet(renameNameless, hit) = Null
             THEN [ref |-> ref, applied |-> {ref.id, ref.key}]
             ELSE LET named == [ref EXCEPT !.name = MapGet(renameNameless, hit),
                                           !.key = refKey(MapGet(renameNameless, hit), ref.group)]
                  IN  [ref |-> named, applied |-> {named.id, named.key}]

RECURSIVE applyRenamesLoop(_, _, _, _, _)
applyRenamesLoop(rs, rename, renameNameless, done, applied) ==
    IF rs = <<>> THEN [refs |-> done, applied |-> applied]
    ELSE LET r == applyRenamesFirst(Head(rs), rename, renameNameless)
         IN  applyRenamesLoop(Tail(rs), rename, renameNameless, Append(done, r.ref),
                              applied \cup r.applied)

\* The fallback: the entries not applied by key go, in order, to the records
\* that have no name, in the order of the map of records.
RECURSIVE applyRenamesFallback(_, _, _)
applyRenamesFallback(rs, remainingEntries, done) ==
    IF rs = <<>> THEN done
    ELSE IF remainingEntries = <<>> \/ Head(rs).name # Null
         THEN applyRenamesFallback(Tail(rs), remainingEntries, Append(done, Head(rs)))
    ELSE LET newName == Head(remainingEntries)[2]
             ref == [Head(rs) EXCEPT !.name = newName, !.key = refKey(newName, Head(rs).group)]
         IN  applyRenamesFallback(Tail(rs), Tail(remainingEntries), Append(done, ref))

applyRenames(rs, rename, renameNameless) ==
    LET first == applyRenamesLoop(rs, rename, renameNameless, <<>>, {})
        remainingEntries == SelectSeq(renameNameless, LAMBDA e : e[1] \notin first.applied)
    IN  applyRenamesFallback(first.refs, remainingEntries, <<>>)

(***************************************************************************)
(* Reference bodies.                                                       *)
(***************************************************************************)
\* content.replace(/\s+/g, ' ')
RECURSIVE CollapseSpaces(_)
CollapseSpaces(s) ==
    IF s = <<>> THEN <<>>
    ELSE IF IsSpace(Head(s))
         THEN <<" ">> \o CollapseSpaces(TrimLeft(s))
         ELSE <<Head(s)>> \o CollapseSpaces(Tail(s))

normalizeContent(content) == Trim(CollapseSpaces(content))

\* text.replace(/[ \t]+\n/g, '\n')
RECURSIVE StripLineEnds(_)
StripLineEnds(s) ==
    IF s = <<>> THEN <<>>
    ELSE IF Head(s) = " "
         THEN LET rest == StripLineEnds(Tail(s))
              IN  IF rest # <<>> /\ Head(rest) = "\n" THEN rest ELSE <<" ">> \o rest
         ELSE <<Head(s)>> \o StripLineEnds(Tail(s))

\* text.replace(/\n{3,}/g, '\n\n')
RECURSIVE SqueezeBlankLines(_)
SqueezeBlankLines(s) ==
    IF Len(s) >= 3 /\ s[1] = "\n" /\ s[2] = "\n" /\ s[3] = "\n" THEN SqueezeBlankLines(Tail(s))
    ELSE IF s = <<>> THEN <<>>
    ELSE <<Head(s)>> \o SqueezeBlankLines(Tail(s))

normalizeContentBlock(content) == Trim(SqueezeBlankLines(StripLineEnds(content)))

\* The bodies of the model hold no {{cite ...}} template, the only text
\* normalizeRefBody rewrites beyond normalizeContentBlock.
normalizeRefBody(content) == normalizeContentBlock(content)

HasContent(d) == Trim(d.content) # <<>>

firstContent(ref) ==
    IF Some(ref.definitions, HasContent) THEN Find(ref.definitions, HasContent, Null).content
    ELSE IF Some(ref.ldrDefinitions, HasContent) THEN Find(ref.ldrDefinitions, HasContent, Null).content
    ELSE Null

(***************************************************************************)
(* applyDedupe, assignLocations, aggregateUses.                            *)
(***************************************************************************)
\* The step of applyDedupe without its check that the record has a name.
applyDedupeStepAnyName(st, i) ==
    LET ref == st.refs[i]
        content == firstContent(ref)
    IN  IF content = Null THEN st
        ELSE LET norm == normalizeContent(content)
             IN  IF MapHas(st.byContent, norm)
                 THEN [st EXCEPT !.refs[i].canonical = MapGet(st.byContent, norm)]
                 ELSE [st EXCEPT !.byContent = Append(@, <<norm, ref.key>>),
                                 !.refs[i].canonical = ref.key]

\* One step of the loop of applyDedupe on the record at index i.
\* st.byContent is canonicalByContent, as <<normalized content, key>> pairs.
applyDedupeStep(st, i) ==
    LET ref == st.refs[i]
        content == firstContent(ref)
    IN  IF content = Null \/ ref.name = Null THEN st
        ELSE LET norm == normalizeContent(content)
             IN  IF MapHas(st.byContent, norm) /\ RefGet(st.refs, MapGet(st.byContent, norm)).name # Null
                 THEN LET j == IndexOfKey(st.refs, MapGet(st.byContent, norm))
                          existing == st.refs[j]
                      IN  [st EXCEPT
                             !.refs[i].canonical = existing.key,
                             !.refs[j].definitions =
                                 IF Len(@) = 0 /\ Len(ref.definitions) > 0 THEN @ \o ref.definitions ELSE @,
                             !.refs[j].ldrDefinitions =
                                 IF Len(@) = 0 /\ Len(ref.ldrDefinitions) > 0 THEN @ \o ref.ldrDefinitions ELSE @,
                             !.changes = Append(@, [from |-> ref.name, to |-> existing.name])]
                 ELSE [st EXCEPT !.byContent = Append(@, <<norm, ref.key>>),
                                 !.refs[i].canonical = ref.key]

RECURSIVE applyDedupeFrom(_, _)
applyDedupeFrom(st, i) ==
    IF i > Len(st.refs) THEN st ELSE applyDedupeFrom(applyDedupeStep(st, i), i + 1)

\* [refs |-> the records after dedupe, changes |-> the {from, to} pairs]
applyDedupe(rs) == applyDedupeFrom([refs |-> rs, byContent |-> <<>>, changes |-> <<>>], 1)

\* Location modes: "keep", "all_inline", "all_ldr", or a threshold.
LocationMode(kind, minUsesForLdr) == [kind |-> kind, minUsesForLdr |-> minUsesForLdr]

normalizeLocationMode(mode) ==
    IF mode.kind # "threshold" THEN mode
    ELSE IF mode.minUsesForLdr >= 1 THEN mode
    ELSE LocationMode("threshold", 2)

\* Only the number of collected uses is read by assignLocations.
aggregateUses(rs, canonical) ==
    Flatten([i \in 1..Len(rs) |->
                IF CanonicalOf(rs, rs[i]).key = canonical.key THEN rs[i].uses ELSE <<>>])

\* The target location assignLocations gives a canonical record.
assignLocationOf(rs, canonical, mode) ==
    IF mode.kind = "keep"
    THEN (IF Len(canonical.ldrDefinitions) > 0 THEN "ldr" ELSE "inline")
    ELSE IF canonical.name = Null THEN "inline"
    ELSE IF mode.kind = "all_inline" THEN "inline"
    ELSE IF mode.kind = "all_ldr" THEN "ldr"
    ELSE IF Len(aggregateUses(rs, canonical)) >= mode.minUsesForLdr THEN "ldr" ELSE "inline"

RECURSIVE assignLocationsFrom(_, _, _, _)
assignLocationsFrom(rs, mode, i, processed) ==
    IF i > Len(rs) THEN rs
    ELSE LET canonical == CanonicalOf(rs, rs[i])
         IN  IF canonical.key \in processed THEN assignLocationsFrom(rs, mode, i + 1, processed)
             ELSE assignLocationsFrom(
                      [rs EXCEPT ![IndexOfKey(rs, canonical.key)].targetLocation =
                                     assignLocationOf(rs, canonical, mode)],
                      mode, i + 1, processed \cup {canonical.key})

assignLocations(rs, mode) == assignLocationsFrom(rs, mode, 1, {})

(***************************************************************************)
(* Rendering.  The tags and templates the engine writes are in the one     *)
(* form its template strings give: raw = "c".                              *)
(***************************************************************************)
\* The names and groups of the model hold no double quote, the one
\* character escapeAttr rewrites.
escapeAttr(value) == value

\* renderRefSelf without the group.
renderRefSelfNoGroup(name, group, preferTemplateR) ==
    IF name = Null THEN <<SelfRef(Null, Null, "c")>>
    ELSE IF preferTemplateR THEN <<RTpl(<<Param("", 0, name)>>)>>
    ELSE <<SelfRef(escapeAttr(name), Null, "c")>>

renderRefSelf(name, group, preferTemplateR) ==
    IF name = Null THEN <<SelfRef(Null, Null, "c")>>
    ELSE IF preferTemplateR
         THEN <<RTpl(<<Param("", 0, name)>>
                     \o (IF group # Null THEN <<Param("group", 0, escapeAttr(group))>> ELSE <<>>))>>
    ELSE <<SelfRef(escapeAttr(name), IF group # Null THEN escapeAttr(group) ELSE Null, "c")>>

renderRefTag(name, group, content, normalize) ==
    <<FullRef(IF name # Null THEN escapeAttr(name) ELSE Null,
              IF group # Null THEN escapeAttr(group) ELSE Null,
              "c",
              IF normalize THEN normalizeRefBody(content) ELSE normalizeContentBlock(content))>>

\* A renumbering that leaves every key with the digits it was written with.
RenumberedKiAsWritten(e, targetIndex) == e.ki

\* The key a renumbered entry is written with: its digits, when it had any,
\* become the target index (no digits for index 1).
RenumberedKi(e, targetIndex) == IF e.ki # 0 /\ targetIndex > 1 THEN targetIndex ELSE 0

\* nameIndexMap of buildRTemplateString: the distinct indices of the name
\* entries, in order of first appearance; an index maps to its position.
RECURSIVE NameIndexOrder(_, _)
NameIndexOrder(entries, seen) ==
    IF entries = <<>> THEN seen
    ELSE IF IsName(Head(entries)) /\ ~\E i \in 1..Len(seen) : seen[i] = Head(entries).index
         THEN NameIndexOrder(Tail(entries), Append(seen, Head(entries).index))
    ELSE NameIndexOrder(Tail(entries), seen)

buildRTemplateParam(e, renumber, order) ==
    LET targetIndex == IF ~renumber THEN e.index
                       ELSE IF \E i \in 1..Len(order) : order[i] = e.index
                            THEN CHOOSE i \in 1..Len(order) : order[i] = e.index
                       ELSE IF Len(order) > 0 THEN Len(order)
                       ELSE e.index
        ki == IF renumber THEN RenumberedKi(e, targetIndex) ELSE e.ki
    IN  IF IsName(e)
        THEN (IF HasKey(e)
              THEN <<Param(IF e.kb = "" /\ ki = 0 THEN "=" ELSE e.kb, ki, e.value)>>
              ELSE <<Param("", 0, e.value)>>)
        ELSE IF HasKey(e) /\ (e.kb # "" \/ ki # 0) THEN <<Param(e.kb, ki, e.value)>>
        ELSE IF e.kind = "group" THEN <<Param("group", 0, e.value)>>
        ELSE IF e.kind = "page" THEN <<Param("p", IF targetIndex > 1 THEN targetIndex ELSE 0, e.value)>>
        ELSE IF e.kind = "pages" THEN <<Param("pp", IF targetIndex > 1 THEN targetIndex ELSE 0, e.value)>>
        ELSE IF e.kind = "at" THEN <<Param("loc", IF targetIndex > 1 THEN targetIndex ELSE 0, e.value)>>
        ELSE <<>>

\* buildRTemplateString: <<>> stands for null (no name among the entries).
buildRTemplateString(entries, renumber) ==
    IF ~Some(entries, IsName) THEN <<>>
    ELSE LET order == IF renumber THEN NameIndexOrder(entries, <<>>) ELSE <<>>
         IN  <<RTpl(Flatten([i \in 1..Len(entries) |->
                                buildRTemplateParam(entries[i], renumber, order)]))>>

(***************************************************************************)
(* renderRTemplate: the text that replaces one {{r|...}}.                  *)
(***************************************************************************)
\* resolveName: the name a name parameter is written with; Null is null.
resolveName(raw, rs, rename) ==
    IF MapHas(rename, raw) THEN MapGet(rename, raw)
    ELSE IF HasKeyRec(rs, refKey(raw, Null))
         THEN CanonicalOf(rs, RefGet(rs, refKey(raw, Null))).name
    ELSE raw

\* entries.map: a name entry takes its resolved name unless that is null.
ResolveEntry(e, rs, rename) ==
    IF IsName(e) /\ resolveName(e.value, rs, rename) # Null
    THEN [e EXCEPT !.value = resolveName(e.value, rs, rename)]
    ELSE e

EntryValue(entries, kind, idxNum) ==
    LET hits == SelectSeq(entries, LAMBDA r : r.kind = kind /\ r.index = idxNum)
    IN  IF hits = <<>> THEN Null ELSE hits[1].value

\* flushPending: the pending unconvertible entries become one renumbered {{r}}.
flushPending(st) ==
    IF st.pendingUnsupported = <<>> THEN st
    ELSE LET tplStr == buildRTemplateString(st.pendingUnsupported, TRUE)
         IN  [st EXCEPT !.segments = IF tplStr # <<>> THEN Append(@, tplStr) ELSE @,
                        !.pendingUnsupported = <<>>]

\* The body of nameEntries.forEach for the name entry e.
renderRTemplateStep(st, e, entries, rs, rename) ==
    LET idxNum == e.index
        relevant == SelectSeq(entries, LAMBDA x : x.index = idxNum /\ x.pos \notin st.used)
        withoutName == SelectSeq(relevant, LAMBDA x : x.pos # e.pos)
        orderedRelevant == <<e>> \o withoutName
        mappedRelevant == [i \in 1..Len(relevant) |-> ResolveEntry(relevant[i], rs, rename)]
        hasUnsupported == \E i \in 1..Len(mappedRelevant) : mappedRelevant[i].kind = "other"
        target == resolveName(e.value, rs, rename)
        usedNow == st.used \cup {orderedRelevant[i].pos : i \in 1..Len(orderedRelevant)}
    IN  IF target = Null THEN st
        ELSE IF hasUnsupported
        THEN [st EXCEPT !.pendingUnsupported =
                            @ \o [i \in 1..Len(orderedRelevant) |->
                                     ResolveEntry(orderedRelevant[i], rs, rename)],
                        !.used = usedNow]
        ELSE LET flushed == flushPending(st)
                 group == EntryValue(mappedRelevant, "group", idxNum)
                 page == EntryValue(mappedRelevant, "page", idxNum)
                 pagesHits == SelectSeq(mappedRelevant, LAMBDA r : r.kind = "pages" /\ r.index = idxNum)
                 pages == EntryValue(mappedRelevant, "pages", idxNum)
                 pagesLabel == IF pagesHits # <<>> /\ pagesHits[1].kb = "pages" THEN "pages" ELSE "pp"
                 at == EntryValue(mappedRelevant, "at", idxNum)
                 rpParts == (IF page # Null THEN <<Param("p", 0, page)>> ELSE <<>>)
                            \o (IF pages # Null THEN <<Param(pagesLabel, 0, pages)>> ELSE <<>>)
                            \o (IF at # Null THEN <<Param("at", 0, at)>> ELSE <<>>)
                 chunk == renderRefSelf(target, group, FALSE)
                          \o (IF rpParts # <<>> THEN <<RpTpl(rpParts)>> ELSE <<>>)
             IN  [flushed EXCEPT !.segments = Append(@, chunk), !.used = usedNow]

RECURSIVE renderRTemplateLoop(_, _, _, _, _)
renderRTemplateLoop(st, nameEntries, entries, rs, rename) ==
    IF nameEntries = <<>> THEN st
    ELSE renderRTemplateLoop(renderRTemplateStep(st, Head(nameEntries), entries, rs, rename),
                             Tail(nameEntries), entries, rs, rename)

\* [some |-> FALSE] is the null result: the template is left as it is.
renderRTemplate(tpl, rs, preferTemplateR, rename) ==
    LET nameEntries == SelectSeq(tpl.entries, IsName)
    IN  IF nameEntries = <<>> THEN [some |-> FALSE, text |-> <<>>]
        ELSE IF preferTemplateR
        THEN [some |-> TRUE,
              text |-> buildRTemplateString(
                           [i \in 1..Len(tpl.entries) |-> ResolveEntry(tpl.entries[i], rs, rename)],
                           FALSE)]
        ELSE LET st0 == [segments |-> <<>>, used |-> {}, pendingUnsupported |-> <<>>]
                 st1 == renderRTemplateLoop(st0, nameEntries, tpl.entries, rs, rename)
                 st2 == IF st1.pendingUnsupported # <<>>
                        THEN [st1 EXCEPT !.pendingUnsupported =
                                  @ \o SelectSeq(tpl.entries, LAMBDA x : x.pos \notin st1.used)]
                        ELSE st1
                 st3 == flushPending(st2)
             IN  IF st3.segments # <<>>
                 THEN [some |-> TRUE, text |-> Join(st3.segments, <<Ws>>)]
                 ELSE [some |-> FALSE, text |-> <<>>]

(***************************************************************************)
(* buildReplacementPlan.                                                   *)
(***************************************************************************)
Replacement(start, end, text) == [start |-> start, end |-> end, text |-> text]

\* An offset beyond every text: where a missing reflist is appended.
MAX_SAFE_INTEGER == 1000000

\* Names in the order of localeCompare (base sensitivity, numeric).
NameOrder == <<"a", "b", "c", "d", "n1", "n2", "x", "y", "z">>

NameRank(n) == IF \E i \in 1..Len(NameOrder) : NameOrder[i] = n
               THEN CHOOSE i \in 1..Len(NameOrder) : NameOrder[i] = n
               ELSE 0

\* Array.prototype.sort (stable): s sorted so that Before never holds of a
\* later element against an earlier one.
StableSort(s, Before(_, _)) ==
    LET pos(i) == 1 + Cardinality({j \in 1..Len(s) :
                        Before(s[j], s[i]) \/ (~Before(s[i], s[j]) /\ j < i)})
    IN  [k \in 1..Len(s) |-> s[CHOOSE i \in 1..Len(s) : pos(i) = k]]

\* The replacements of the {{r}} templates, in template order.
planRTemplates(cx, opts, rename) ==
    Flatten([t \in 1..Len(cx.rTemplates) |->
        LET tpl == cx.rTemplates[t]
            rendered == renderRTemplate(tpl, cx.refs, opts.useTemplateR, rename)
        IN  IF rendered.some THEN <<Replacement(tpl.start, tpl.end, rendered.text)>> ELSE <<>>])

\* What the loop over ref.uses does with the use at (0-based) index useIdx:
\* the replacement pushed, and the names pushed to movedInline and movedLdr.
planUse(cx, opts, ref, useIdx) ==
    LET use == ref.uses[useIdx + 1]
        canonical == CanonicalOf(cx.refs, ref)
        targetName == IF canonical.name # Null THEN canonical.name ELSE ref.name
        targetLocation == canonical.targetLocation
        content == firstContent(canonical)
        isDefinition == \E d \in 1..Len(ref.definitions) : ref.definitions[d] = use
        canonicalContent == IF content # Null THEN content ELSE <<>>
        none == [repl |-> <<>>, movedInline |-> <<>>, movedLdr |-> <<>>]
        ldrMove == IF isDefinition /\ targetLocation = "ldr" /\ targetName # Null
                   THEN <<targetName>> ELSE <<>>
    IN  IF use.kind = "templateR" /\ use.rTemplateId >= 0 THEN none
        ELSE IF /\ opts.locationModeKeep
                /\ ~opts.useTemplateR
                /\ ~opts.normalizeAll
                /\ targetName = use.name
                /\ ref.group = use.group
                /\ ((use.kind = "full" /\ canonicalContent = use.content) \/ use.kind # "full")
        THEN none
        ELSE IF /\ targetLocation = "inline"
                /\ canonical.key = ref.key
                /\ useIdx = 0
                /\ canonicalContent # <<>>
        THEN [repl |-> <<Replacement(use.start, use.end,
                            renderRefTag(targetName, ref.group, canonicalContent, opts.normalizeAll))>>,
              movedInline |-> IF targetName # Null THEN <<targetName>> ELSE <<>>,
              movedLdr |-> ldrMove]
        ELSE [repl |-> <<Replacement(use.start, use.end,
                            renderRefSelf(targetName, ref.group, opts.useTemplateR))>>,
              movedInline |-> <<>>,
              movedLdr |-> ldrMove]

\* What the loop over ref.ldrDefinitions (location mode keep) does with one definition.
planLdrDefinition(cx, opts, ref, def) ==
    LET canonical == CanonicalOf(cx.refs, ref)
        targetName == IF canonical.name # Null THEN canonical.name ELSE ref.name
        content == def.content
        targetGroup == IF def.group # Null THEN def.group ELSE ref.group
    IN  IF ~opts.useTemplateR /\ ~opts.normalizeAll /\ targetName = def.name /\ targetGroup = def.group
        THEN [repl |-> <<>>, movedInline |-> <<>>, movedLdr |-> <<>>]
        ELSE [repl |-> <<Replacement(def.start, def.end,
                            IF content # <<>>
                            THEN renderRefTag(targetName, targetGroup, content, opts.normalizeAll)
                            ELSE renderRefSelf(targetName, targetGroup, opts.useTemplateR))>>,
              movedInline |-> <<>>,
              movedLdr |-> IF targetName # Null THEN <<targetName>> ELSE <<>>]

\* The steps of one record, in the order the code takes them.
planRef(cx, opts, ref) ==
    [u \in 1..Len(ref.uses) |-> planUse(cx, opts, ref, u - 1)]
    \o (IF opts.locationModeKeep
        THEN [d \in 1..Len(ref.ldrDefinitions) |-> planLdrDefinition(cx, opts, ref, ref.ldrDefinitions[d])]
        ELSE <<>>)

planRefs(cx, opts) == Flatten([i \in 1..Len(cx.refs) |-> planRef(cx, opts, cx.refs[i])])

buildLdrEntries(rs) ==
    Flatten([i \in 1..Len(rs) |->
        LET ref == rs[i]
            canonical == CanonicalOf(rs, ref)
        IN  IF \/ canonical.key # ref.key
               \/ canonical.targetLocation # "ldr"
               \/ canonical.name = Null
               \/ firstContent(canonical) = Null
            THEN <<>>
            ELSE <<[name |-> canonical.name, group |-> canonical.group,
                    content |-> firstContent(canonical)]>>])

LdrBefore(a, b) == NameRank(a.name) < NameRank(b.name)

\* '\n' + tags.join('\n') + '\n'
renderRefsValue(entries, sort) ==
    LET sorted == IF sort THEN StableSort(entries, LdrBefore) ELSE entries
    IN  <<Nl>>
        \o Join([i \in 1..Len(sorted) |->
                    renderRefTag(sorted[i].name, sorted[i].group, sorted[i].content, FALSE)], <<Nl>>)
        \o <<Nl>>

\* renderTemplate of a reflist: refsValue = <<>> writes no refs parameter.
renderTemplate(name, hasRefs, refsValue) ==
    IF hasRefs THEN <<LOpen(name, "refs")>> \o refsValue \o <<LClose>>
    ELSE <<LOpen(name, "plain"), LClose>>

updateReflistTemplate(tpl, ldrEntries, sort) ==
    IF Len(ldrEntries) = 0 THEN renderTemplate(tpl.name, FALSE, <<>>)
    ELSE renderTemplate(tpl.name, TRUE, renderRefsValue(ldrEntries, sort))

buildStandaloneReflist(entries, sort) ==
    <<Nl>> \o renderTemplate("reflist", TRUE, renderRefsValue(entries, sort))

\* tpl.content
TemplateContent(text, tpl) == SubSeq(text, tpl.start + 1, tpl.end)

planReflists(text, cx, opts) ==
    IF opts.locationModeKeep THEN <<>>
    ELSE LET ldrEntries == buildLdrEntries(cx.refs)
         IN  Flatten([t \in 1..Len(cx.templates) |->
                 LET tpl == cx.templates[t]
                     updated == updateReflistTemplate(tpl, ldrEntries, opts.sortRefs)
                 IN  IF updated # TemplateContent(text, tpl)
                     THEN <<Replacement(tpl.start, tpl.end, updated)>> ELSE <<>>])
             \o (IF Len(ldrEntries) > 0 /\ Len(cx.templates) = 0
                 THEN <<Replacement(MAX_SAFE_INTEGER, MAX_SAFE_INTEGER,
                                    buildStandaloneReflist(ldrEntries, opts.sortRefs))>>
                 ELSE <<>>)

StartsAfter(a, b) == a.start > b.start

StartsBefore(a, b) == a.start < b.start

\* The first replacement of each (start, end) span, in the order given.
RECURSIVE FirstPerSpan(_, _)
FirstPerSpan(repls, seen) ==
    IF repls = <<>> THEN <<>>
    ELSE LET r == Head(repls)
         IN  IF <<r.start, r.end>> \in seen THEN FirstPerSpan(Tail(repls), seen)
             ELSE <<r>> \o FirstPerSpan(Tail(repls), seen \cup {<<r.start, r.end>>})

collapseReplacements(repls) == FirstPerSpan(StableSort(repls, StartsAfter), {})

buildReplacementPlan(text, cx, opts, rename) ==
    LET steps == planRefs(cx, opts)
        replacements == planRTemplates(cx, opts, rename)
                        \o Flatten([i \in 1..Len(steps) |-> steps[i].repl])
                        \o planReflists(text, cx, opts)
    IN  [replacements |-> collapseReplacements(replacements),
         movedInline |-> Flatten([i \in 1..Len(steps) |-> steps[i].movedInline]),
         movedLdr |-> Flatten([i \in 1..Len(steps) |-> steps[i].movedLdr])]

(***************************************************************************)
(* applyReplacements.                                                      *)
(***************************************************************************)
\* String.prototype.slice(from, to) on a sequence, with its clamping of
\* offsets that are negative or beyond the end.
SliceIndex(s, i) == IF i < 0 THEN Max2(Len(s) + i, 0) ELSE IF i > Len(s) THEN Len(s) ELSE i

Slice(s, from, to) == SubSeq(s, SliceIndex(s, from) + 1, SliceIndex(s, to))

SliceFrom(s, from) == SubSeq(s, SliceIndex(s, from) + 1, Len(s))

RECURSIVE applyReplacementsFrom(_, _, _)
applyReplacementsFrom(output, offset, sorted) ==
    IF sorted = <<>> THEN output
    ELSE LET r == Head(sorted)
             start == r.start + offset
             end == r.end + offset
         IN  applyReplacementsFrom(Slice(output, 0, start) \o r.text \o SliceFrom(output, end),
                                   offset + Len(r.text) - (r.end - r.start),
                                   Tail(sorted))

\* The replacements applied in the order they are listed.
applyReplacementsAsListed(src, replacements) == applyReplacementsFrom(src, 0, replacements)

applyReplacements(src, replacements) ==
    applyReplacementsFrom(src, 0, StableSort(replacements, StartsBefore))

(***************************************************************************)
(* collapseRefsAndRp: runs of adjacent self-closing tags, {{r}} and {{rp}}  *)
(* become chained {{r}} templates.                                         *)
(***************************************************************************)
IsBlank(a) == a.k \in {"ws", "nl"}

\* The offset just past the whitespace that starts at offset i.
RECURSIVE SkipBlank(_, _)
SkipBlank(text, i) ==
    IF i < Len(text) /\ IsBlank(text[i + 1]) THEN SkipBlank(text, i + 1) ELSE i

\* chainRegex from offset i, where a self-closing tag or a {{r}} starts: the
\* offset just past the longest match.
RECURSIVE ChainEnd(_, _)
ChainEnd(text, i) ==
    LET afterRef == SkipBlank(text, i + 1)
        afterRp == IF afterRef < Len(text) /\ text[afterRef + 1].k = "rp"
                   THEN SkipBlank(text, afterRef + 1) ELSE afterRef
    IN  IF afterRp < Len(text) /\ text[afterRp + 1].k \in {"self", "r"}
        THEN ChainEnd(text, afterRp) ELSE afterRp

RpKey(p) == IF p.ki # 0 THEN "other"
            ELSE IF p.kb \in {"", "=", "p", "page"} THEN "page"
            ELSE IF p.kb \in {"pp", "pages"} THEN "pages"
            ELSE IF p.kb \in {"at", "location", "loc"} THEN "at"
            ELSE IF p.kb \in {"group", "grp", "g"} THEN "group"
            ELSE "other"

\* The value parseRp leaves under a key: that of the last parameter with it.
RpValue(params, key) ==
    LET hits == SelectSeq(params, LAMBDA p : RpKey(p) = key)
    IN  IF hits = <<>> THEN Null ELSE hits[Len(hits)].val

parseRp(atom) ==
    [page |-> RpValue(atom.params, "page"), pages |-> RpValue(atom.params, "pages"),
     at |-> RpValue(atom.params, "at"), group |-> RpValue(atom.params, "group"),
     unsupported |-> \E i \in 1..Len(atom.params) : RpKey(atom.params[i]) = "other"]

\* [some |-> FALSE] is null.
rEntriesFromR(atom) ==
    LET entries == parseRTemplateEntries(atom.params)
        nameCount == Len(SelectSeq(entries, IsName))
    IN  IF \/ \E i \in 1..Len(entries) : entries[i].kind = "other"
           \/ nameCount = 0
           \/ \E i \in 1..Len(entries) : ~IsName(entries[i]) /\ entries[i].index > nameCount
        THEN [some |-> FALSE, entries |-> <<>>]
        ELSE [some |-> TRUE, entries |-> entries]

ChainItem(name, group, page, pages, at) ==
    [name |-> name, group |-> group, page |-> page, pages |-> pages, at |-> at]

buildChain(items) ==
    LET hasDetail == \E i \in 1..Len(items) :
                        items[i].page # Null \/ items[i].pages # Null \/ items[i].at # Null
        suffix(i) == IF i = 1 THEN 0 ELSE i
    IN  <<RTpl(Flatten([i \in 1..Len(items) |->
            <<Param("", 0, items[i].name)>>
            \o (IF items[i].group # Null
                THEN <<Param("group", IF hasDetail THEN suffix(i) ELSE 0, items[i].group)>>
                ELSE <<>>)
            \o (IF items[i].page # Null THEN <<Param("p", suffix(i), items[i].page)>> ELSE <<>>)
            \o (IF items[i].pages # Null THEN <<Param("pp", suffix(i), items[i].pages)>> ELSE <<>>)
            \o (IF items[i].at # Null THEN <<Param("loc", suffix(i), items[i].at)>> ELSE <<>>)]))>>

flushChain(st) ==
    IF st.chain # <<>> THEN [parts |-> Append(st.parts, buildChain(st.chain)), chain |-> <<>>]
    ELSE st

\* The chain items of the names of one {{r}}.
rChainItems(entries) ==
    LET names == SelectSeq(entries, IsName)
    IN  [i \in 1..Len(names) |->
            LET idx == IF names[i].index = 0 THEN 1 ELSE names[i].index
            IN  ChainItem(names[i].value, EntryValue(entries, "group", idx),
                          EntryValue(entries, "page", idx), EntryValue(entries, "pages", idx),
                          EntryValue(entries, "at", idx))]

\* last.page = rp.page ?? last.page, and so on, on the last item of the chain.
mergeRp(chain, rp) ==
    [chain EXCEPT ![Len(chain)] =
        ChainItem(@.name,
                  IF rp.group # Null THEN rp.group ELSE @.group,
                  IF rp.page # Null THEN rp.page ELSE @.page,
                  IF rp.pages # Null THEN rp.pages ELSE @.pages,
                  IF rp.at # Null THEN rp.at ELSE @.at)]

\* The loop over the tokens of one block.
RECURSIVE collapseTokens(_, _)
collapseTokens(tokens, st) ==
    IF tokens = <<>> THEN flushChain(st)
    ELSE LET tok == Head(tokens)
             hasRp == Len(tokens) > 1 /\ tokens[2].k = "rp"
             rest == IF hasRp THEN Tail(Tail(tokens)) ELSE Tail(tokens)
             raw == IF hasRp THEN <<tok, tokens[2]>> ELSE <<tok>>
             rp == IF hasRp THEN parseRp(tokens[2])
                   ELSE [page |-> Null, pages |-> Null, at |-> Null, group |-> Null,
                         unsupported |-> FALSE]
             keepRaw == LET f == flushChain(st) IN [f EXCEPT !.parts = Append(@, raw)]
         IN  IF tok.k = "self"
             THEN (IF extractAttr(tok, "name") = Null \/ rp.unsupported
                   THEN collapseTokens(rest, keepRaw)
                   ELSE collapseTokens(rest,
                            [st EXCEPT !.chain = Append(@, ChainItem(extractAttr(tok, "name"),
                                                     extractAttr(tok, "group"),
                                                     rp.page, rp.pages, rp.at))]))
             ELSE IF tok.k = "r"
             THEN LET r == rEntriesFromR(tok)
                  IN  IF ~r.some THEN collapseTokens(rest, keepRaw)
                      ELSE LET pushed == [st EXCEPT !.chain = @ \o rChainItems(r.entries)]
                           IN  IF ~hasRp THEN collapseTokens(rest, pushed)
                               ELSE IF ~rp.unsupported /\ pushed.chain # <<>>
                               THEN collapseTokens(rest,
                                        [pushed EXCEPT !.chain = mergeRp(@, rp)])
                               ELSE collapseTokens(rest,
                                        LET f == flushChain(pushed)
                                        IN  [f EXCEPT !.parts = Append(@, raw)])
             ELSE collapseTokens(Tail(tokens),
                      LET f == flushChain(st) IN [f EXCEPT !.parts = Append(@, <<tok>>)])

\* The replacer of text.replace(chainRegex, ...) on one block.
collapseBlock(block) ==
    IF \E i \in 1..Len(block) : block[i].k = "nl" THEN block
    ELSE LET trimmedLen == CHOOSE n \in 0..Len(block) :
                              /\ \A i \in (n + 1)..Len(block) : IsBlank(block[i])
                              /\ (n = 0 \/ ~IsBlank(block[n]))
             trailingWs == SubSeq(block, trimmedLen + 1, Len(block))
             tokens == SelectSeq(SubSeq(block, 1, trimmedLen), LAMBDA a : ~IsBlank(a))
         IN  IF tokens = <<>> THEN block
             ELSE Join(collapseTokens(tokens, [parts |-> <<>>, chain |-> <<>>]).parts, <<Ws>>)
                  \o trailingWs

RECURSIVE collapseFrom(_, _)
collapseFrom(text, i) ==
    IF i >= Len(text) THEN <<>>
    ELSE IF text[i + 1].k \in {"self", "r"}
         THEN LET end == ChainEnd(text, i)
              IN  collapseBlock(SubSeq(text, i + 1, end)) \o collapseFrom(text, end)
    ELSE <<text[i + 1]>> \o collapseFrom(text, i + 1)

collapseRefsAndRp(text, preferTemplateR) ==
    IF ~preferTemplateR THEN text ELSE collapseFrom(text, 0)

(***************************************************************************)
(* parseReferences.  The markers of the blocks sanitizeWikitext removes    *)
(* are atoms of their own:                                                 *)
(*   bopen   <!--  <nowiki>  <pre>  <syntaxhighlight>   name = the kind    *)
(*   bclose  -->  </nowiki>  </pre>  </syntaxhighlight>                    *)
(*   nowikiself  <nowiki />                                                *)
(***************************************************************************)
BOpen(kind) == Atom("bopen", kind, Null, kind, <<>>, <<>>)

BClose(kind) == Atom("bclose", kind, Null, kind, <<>>, <<>>)

\* The index of the first closing marker of a kind in a text, 0 when none.
RECURSIVE FirstClose(_, _, _)
FirstClose(text, kind, i) ==
    IF i > Len(text) THEN 0
    ELSE IF text[i].k = "bclose" /\ text[i].name = kind THEN i
    ELSE FirstClose(text, kind, i + 1)

\* text.replace(/OPEN[\s\S]*?CLOSE/g, ''): each leftmost opening marker that
\* has a closing marker after it is removed with everything up to the first
\* such marker.
RECURSIVE removeBlocks(_, _)
removeBlocks(text, kind) ==
    IF text = <<>> THEN <<>>
    ELSE IF Head(text).k = "bopen" /\ Head(text).name = kind /\ FirstClose(text, kind, 2) # 0
    THEN removeBlocks(SubSeq(text, FirstClose(text, kind, 2) + 1, Len(text)), kind)
    ELSE <<Head(text)>> \o removeBlocks(Tail(text), kind)

sanitizeWikitext(text) ==
    LET t1 == removeBlocks(text, "comment")
        t2 == removeBlocks(t1, "nowiki")
        t3 == removeBlocks(t2, "pre")
        t4 == removeBlocks(t3, "syntaxhighlight")
    IN  SelectSeq(t4, LAMBDA a : a.k # "nowikiself")

Reference(id, name, group, contentWikitext) ==
    [id |-> id, name |-> name, group |-> group, contentWikitext |-> contentWikitext, uses |-> <<>>]

\* getOrCreateRef of parseReferences followed by the caller's uses.push:
\* st is [refs, namelessCounter]; the key is the name alone.
getOrCreateRef(st, name, group, content) ==
    LET key == IF name # Null THEN name ELSE "__nameless_" \o ToString(st.namelessCounter)
        counter == IF name # Null THEN st.namelessCounter ELSE st.namelessCounter + 1
        use(r) == [index |-> Len(r.uses), anchor |-> Null]
    IN  IF \E i \in 1..Len(st.refs) : st.refs[i].id = key
        THEN LET i == CHOOSE i \in 1..Len(st.refs) : st.refs[i].id = key
                 r == st.refs[i]
                 r1 == IF content # <<>> /\ r.contentWikitext = <<>>
                       THEN [r EXCEPT !.contentWikitext = content] ELSE r
             IN  [refs |-> [st.refs EXCEPT ![i] = [r1 EXCEPT !.uses = Append(@, use(r1))]],
                  namelessCounter |-> counter]
        ELSE LET r == Reference(key, name, group, content)
             IN  [refs |-> Append(st.refs, [r EXCEPT !.uses = <<use(r)>>]),
                  namelessCounter |-> counter]

\* One loop of parseReferences: the atoms of a kind, in text order.
RECURSIVE listTags(_, _, _)
listTags(text, kind, st) ==
    IF text = <<>> THEN st
    ELSE IF Head(text).k # kind THEN listTags(Tail(text), kind, st)
    ELSE listTags(Tail(text), kind,
                  getOrCreateRef(st, Head(text).name, Head(text).group,
                                 IF kind = "full" THEN Trim(Head(text).body) ELSE <<>>))

RECURSIVE listNames(_, _)
listNames(names, st) ==
    IF names = <<>> THEN st
    ELSE listNames(Tail(names), getOrCreateRef(st, Head(names).value, Null, <<>>))

RECURSIVE listRTemplates(_, _)
listRTemplates(text, st) ==
    IF text = <<>> THEN st
    ELSE IF Head(text).k # "r" THEN listRTemplates(Tail(text), st)
    ELSE listRTemplates(Tail(text),
                        listNames(SelectSeq(parseRTemplateEntries(Head(text).params), IsName), st))

\* Self-closing tags first, then full tags, then {{r}} templates.
parseReferences(text) ==
    LET sanitized == sanitizeWikitext(text)
        st0 == [refs |-> <<>>, namelessCounter |-> 0]
    IN  listRTemplates(sanitized, listTags(sanitized, "full", listTags(sanitized, "self", st0))).refs

(***************************************************************************)
(* transformWikitext, one action per step of its body.                     *)
(***************************************************************************)
TransformOptions(renameMap, renameNameless, dedupe, locationMode, sortRefs, useTemplateR,
                 normalizeAll) ==
    [renameMap |-> renameMap, renameNameless |-> renameNameless, dedupe |-> dedupe,
     locationMode |-> locationMode, sortRefs |-> sortRefs, useTemplateR |-> useTemplateR,
     normalizeAll |-> normalizeAll]

\* transformWikitext(text, {}): every option at its default.
NoOptions == TransformOptions(<<>>, <<>>, FALSE, LocationMode("keep", 0), FALSE, FALSE, FALSE)

renameMapOf(opts) == normalizeRenameMap(opts.renameMap)

targetMode(opts) == normalizeLocationMode(opts.locationMode)

NoCtx == [refs |-> <<>>, templates |-> <<>>, rTemplates |-> <<>>]

NoScan == [i |-> 0, matches |-> <<>>]

NoPlan == [replacements |-> <<>>, movedInline |-> <<>>, movedLdr |-> <<>>]

NoResult == [wikitext |-> <<>>, changes |-> [renamed |-> <<>>, deduped |-> <<>>,
                                             movedToInline |-> <<>>, movedToLdr |-> <<>>]]

\* ctx = parseWikitext(...); ctx.refs = normalizeRefKeys(ctx.refs)
Parse ==
    /\ pc = "start"
    /\ ctx' = [parseWikitext(wikitext, DEFAULT_REFLIST_TEMPLATES) EXCEPT !.refs = normalizeRefKeys(@)]
    /\ pc' = "parsed"
    /\ UNCHANGED <<given, scan, wikitext, options, deduped, plan, result, source, pass, panel>>

\* applyRenames(...); ctx.refs = normalizeRefKeys(ctx.refs)
Rename ==
    /\ pc = "parsed"
    /\ ctx' = [ctx EXCEPT !.refs = normalizeRefKeys(
                                       applyRenames(@, renameMapOf(options), options.renameNameless))]
    /\ pc' = "renamed"
    /\ UNCHANGED <<given, scan, wikitext, options, deduped, plan, result, source, pass, panel>>

\* deduped = dedupe ? applyDedupe(ctx.refs) : []
Dedupe ==
    /\ pc = "renamed"
    /\ LET d == applyDedupe(ctx.refs)
       IN  /\ ctx' = IF options.dedupe THEN [ctx EXCEPT !.refs = d.refs] ELSE ctx
           /\ deduped' = IF options.dedupe THEN d.changes ELSE <<>>
    /\ pc' = "deduped"
    /\ UNCHANGED <<given, scan, wikitext, options, plan, result, source, pass, panel>>

AssignLocations ==
    /\ pc = "deduped"
    /\ ctx' = [ctx EXCEPT !.refs = assignLocations(@, targetMode(options))]
    /\ pc' = "located"
    /\ UNCHANGED <<given, scan, wikitext, options, deduped, plan, result, source, pass, panel>>

PlanOptions(opts) ==
    [useTemplateR |-> opts.useTemplateR, sortRefs |-> opts.sortRefs,
     normalizeAll |-> opts.normalizeAll, locationModeKeep |-> targetMode(opts).kind = "keep"]

Plan ==
    /\ pc = "located"
    /\ plan' = buildReplacementPlan(wikitext, ctx, PlanOptions(options), renameMapOf(options))
    /\ pc' = "planned"
    /\ UNCHANGED <<given, scan, wikitext, options, ctx, deduped, result, source, pass, panel>>

\* replaced = applyReplacements(...); finalText = collapseRefsAndRp(replaced) when
\* useTemplateR; the result is returned.
Apply ==
    /\ pc = "planned"
    /\ result' = [wikitext |-> collapseRefsAndRp(applyReplacements(wikitext, plan.replacements),
                                                 options.useTemplateR),
                  changes |-> [renamed |-> renameMapOf(options), deduped |-> deduped,
                               movedToInline |-> plan.movedInline,
                               movedToLdr |-> plan.movedLdr]]
    /\ pc' = "done"
    /\ UNCHANGED <<given, scan, wikitext, options, ctx, deduped, plan, source, pass, panel>>

\* refs = parseReferences(wikitext)
ParseReferences ==
    /\ pc = "start"
    /\ references' = parseReferences(wikitext)
    /\ pc' = "listed"
    /\ UNCHANGED <<given, scan, wikitext, options, ctx, deduped, plan, result, source, pass,
                   refs, pendingChanges, editingRefId, saved>>

\* A second call of transformWikitext on the text the first returned, with the
\* shorthand preference toggled.
Again ==
    /\ pc = "done"
    /\ pass = 1
    /\ wikitext' = result.wikitext
    /\ options' = [options EXCEPT !.useTemplateR = ~@]
    /\ ctx' = NoCtx
    /\ deduped' = <<>>
    /\ plan' = NoPlan
    /\ result' = NoResult
    /\ pass' = 2
    /\ pc' = "start"
    /\ UNCHANGED <<given, scan, source, panel>>

Transform == Parse \/ Rename \/ Dedupe \/ AssignLocations \/ Plan \/ Apply

\* The state at the call transformWikitext(text, opts).
Call(text, opts) ==
    /\ wikitext = text
    /\ options = opts
    /\ source = text
    /\ pc = "start"
    /\ ctx = NoCtx
    /\ deduped = <<>>
    /\ plan = NoPlan
    /\ result = NoResult
    /\ pass = 1
    /\ references = <<>>
    /\ refs = <<>>
    /\ pendingChanges = <<>>
    /\ editingRefId = Null
    /\ saved = "idle"
    /\ given = <<>>
    /\ scan = NoScan

\* transformWikitext(text, opts) as one value: the steps of the actions above
\* in their order, each handing its result to the next (parsed, renamed,
\* the dedupe result d, the plan p).
transformPlanned(text, opts, d, p) ==
    [wikitext |-> collapseRefsAndRp(applyReplacements(text, p.replacements), opts.useTemplateR),
     changes |-> [renamed |-> renameMapOf(opts),
                  deduped |-> IF opts.dedupe THEN d.changes ELSE <<>>,
                  movedToInline |-> p.movedInline, movedToLdr |-> p.movedLdr]]

transformDeduped(text, opts, parsed, renamed, d) ==
    transformPlanned(text, opts, d,
        buildReplacementPlan(text,
            [parsed EXCEPT !.refs = assignLocations(IF opts.dedupe THEN d.refs ELSE renamed,
                                                    targetMode(opts))],
            PlanOptions(opts), renameMapOf(opts)))

transformRenamed(text, opts, parsed, renamed) ==
    transformDeduped(text, opts, parsed, renamed, applyDedupe(renamed))

transformParsed(text, opts, parsed) ==
    transformRenamed(text, opts, parsed,
        normalizeRefKeys(applyRenames(normalizeRefKeys(parsed.refs),
                                      renameMapOf(opts), opts.renameNameless)))

transformWikitext(text, opts) ==
    transformParsed(text, opts, parseWikitext(text, DEFAULT_REFLIST_TEMPLATES))

(***************************************************************************)
(* Documents and options.  A document is the concatenation of at most      *)
(* MaxChunks chunks drawn from a family's alphabet.                        *)
(***************************************************************************)
MaxChunks == 3

MaxThreshold == 2

X == <<"X">>

Y == <<"Y">>

FullAX == FullRef("a", Null, "c", X)

FullAY == FullRef("a", Null, "c", Y)

FullBX == FullRef("b", Null, "c", X)

FullBGY == FullRef("b", "g", "c", Y)

\* <ref name='a'> X</ref>: single quotes, body with a leading blank.
FullASq == FullRef("a", Null, "s", <<" ", "X">>)

\* <ref>X</ref> and <ref>Y</ref>
FullUX == FullRef(Null, Null, "c", X)

FullUY == FullRef(Null, Null, "c", Y)

SelfA == SelfRef("a", Null, "c")

SelfB == SelfRef("b", Null, "c")

SelfBG == SelfRef("b", "g", "c")

\* <ref name='a'/>: a self-closing tag in another spelling than renderRefSelf's.
SelfASq == SelfRef("a", Null, "s")

RA == RTpl(<<Param("", 0, "a")>>)

RB == RTpl(<<Param("", 0, "b")>>)

RBG == RTpl(<<Param("", 0, "b"), Param("group", 0, "g")>>)

\* {{r|a|lang2=en}}
RALang == RTpl(<<Param("", 0, "a"), Param("lang", 2, "en")>>)

\* {{reflist}}
PlainList == <<LOpen("reflist", "plain"), LClose>>

\* {{reflist|refs= ... }} holding the given definitions, one per line.
LdrList(defs) ==
    <<LOpen("reflist", "refs"), Nl>> \o Flatten([i \in 1..Len(defs) |-> <<defs[i], Nl>>]) \o <<LClose>>

ChunkSeqs(chunks, n) == UNION {[1..k -> chunks] : k \in 0..n}

Documents(chunks, n) == {Flatten(s) : s \in ChunkSeqs(chunks, n)}

Thresholds == {LocationMode("threshold", n) : n \in 1..MaxThreshold}

LocationModes == {LocationMode("keep", 0), LocationMode("all_inline", 0),
                  LocationMode("all_ldr", 0)} \cup Thresholds

\* The general family: every reference syntax, and one option set at a time.
GeneralChunks ==
    {<<FullAX>>, <<FullAY>>, <<FullBX>>, <<FullASq>>, <<FullUX>>, <<SelfA>>, <<RA>>, <<RB>>,
     <<RALang>>, <<Txt("t")>>, PlainList, LdrList(<<FullAX>>)}

GeneralOptions ==
    {NoOptions,
     [NoOptions EXCEPT !.renameMap = <<<<"a", "c">>>>],
     [NoOptions EXCEPT !.renameMap = <<<<"a", "c">>>>, !.useTemplateR = TRUE,
                       !.locationMode = LocationMode("all_ldr", 0)],
     [NoOptions EXCEPT !.dedupe = TRUE],
     [NoOptions EXCEPT !.dedupe = TRUE, !.renameMap = <<<<"b", "c">>>>],
     [NoOptions EXCEPT !.locationMode = LocationMode("all_inline", 0)],
     [NoOptions EXCEPT !.renameNameless = <<<<"__nameless_0", "c">>>>],
     [NoOptions EXCEPT !.renameNameless = <<<<"k", "c">>, <<"__nameless_1", "d">>>>]}
    \cup {[NoOptions EXCEPT !.locationMode = m] : m \in Thresholds}

Init == \E text \in Documents(GeneralChunks, MaxChunks), opts \in GeneralOptions : Call(text, opts)

Next == Transform

Spec == Init /\ [][Next]_vars

\* The family of unnamed references: unnamed and named tags with equal and
\* different bodies in the running text, under every combination of
\* dedupe, locationMode, sortRefs, useTemplateR and normalizeAll.
UnnamedChunks == {<<FullUX>>, <<FullUY>>, <<FullAX>>, <<SelfA>>, LdrList(<<FullAX>>)}

UnnamedOptions ==
    {TransformOptions(<<>>, <<>>, d, m, s, r, n) :
        d \in BOOLEAN, m \in LocationModes, s \in BOOLEAN, r \in BOOLEAN, n \in BOOLEAN}

InitUnnamed ==
    \E text \in Documents(UnnamedChunks, MaxChunks), opts \in UnnamedOptions : Call(text, opts)

SpecUnnamed == InitUnnamed /\ [][Next]_vars

\* The family of the shorthand toggle: use sites in tag form or in {{r}}
\* form in the running text, the definitions in the reflist block after it;
\* transformWikitext is called twice, the second time on the text the first
\* returned, with useTemplateR toggled.
ToggleChunks ==
    {<<SelfA>>, <<SelfBG>>, <<SelfASq>>, <<RA>>, <<RBG>>, <<Txt("t")>>, <<Ws>>, <<Nl>>}

ToggleList == <<Nl>> \o LdrList(<<FullAX, FullBGY>>)

ToggleOptions == {NoOptions, [NoOptions EXCEPT !.useTemplateR = TRUE]}

InitToggle ==
    \E text \in Documents(ToggleChunks, MaxChunks), opts \in ToggleOptions :
        Call(text \o ToggleList, opts)

NextToggle == Transform \/ Again

SpecToggle == InitToggle /\ [][NextToggle]_vars

(***************************************************************************)
(* What a text shows of its references.                                    *)
(***************************************************************************)
\* The names the name parameters of one {{r}} give.
RNames(atom) == {e.value : e \in Range(SelectSeq(parseRTemplateEntries(atom.params), IsName))}

\* The names the atom at a (0-based) offset cites or defines.
NamesAt(text, i) ==
    LET a == text[i + 1]
    IN  IF a.k \in {"full", "self"} THEN {a.name} \ {Null}
        ELSE IF a.k = "r" THEN RNames(a)
        ELSE {}

NamesIn(text) == UNION {NamesAt(text, i) : i \in 0..(Len(text) - 1)}

\* The text with every name attribute and name parameter blanked.
EraseNames(text) ==
    [i \in 1..Len(text) |->
        LET a == text[i]
        IN  IF a.k \in {"full", "self"} THEN [a EXCEPT !.name = IF @ # Null THEN "_" ELSE @]
            ELSE IF a.k = "r"
            THEN [a EXCEPT !.params = [j \in 1..Len(@) |->
                     IF (IF @[j].kb = "=" THEN "" ELSE @[j].kb) \in NameKeys
                     THEN [@[j] EXCEPT !.val = "_"] ELSE @[j]]]
            ELSE a]

\* The offsets inside the reflist templates of a text, braces included.
TemplateOffsets(text) ==
    LET tpls == findTemplates(text, DEFAULT_REFLIST_TEMPLATES)
    IN  UNION {tpls[t].start .. (tpls[t].end - 1) : t \in 1..Len(tpls)}

\* The offsets of the full tags of (name, group): in the list blocks, and in the running text.
ListDefs(text, name, group) ==
    {i \in TemplateOffsets(text) :
        text[i + 1].k = "full" /\ text[i + 1].name = name /\ text[i + 1].group = group}

InlineDefs(text, name, group) ==
    {i \in (0..(Len(text) - 1)) \ TemplateOffsets(text) :
        text[i + 1].k = "full" /\ text[i + 1].name = name /\ text[i + 1].group = group}

\* The canonical records that have a name and a body.
NamedBodies(rs) ==
    {i \in 1..Len(rs) : /\ CanonicalOf(rs, rs[i]).key = rs[i].key
                        /\ rs[i].name # Null
                        /\ firstContent(rs[i]) # Null}

OptionsBut(opts, renameMap, renameNameless, dedupe, locationMode) ==
    opts = [NoOptions EXCEPT !.renameMap = renameMap, !.renameNameless = renameNameless,
                             !.dedupe = dedupe, !.locationMode = locationMode]

(***************************************************************************)
(* C1.  transformWikitext(text, {}) returns text unchanged, and its        *)
(* replacement plan is empty, whichever reference syntaxes text contains.  *)
(***************************************************************************)
C1_NoOpLaw ==
    (pc = "done" /\ options = NoOptions)
        => (result.wikitext = wikitext /\ plan.replacements = <<>>)

(***************************************************************************)
(* C2.  With only renameMap set (location mode keep) nothing changes but   *)
(* the values of the name attributes and name parameters: the text with    *)
(* the names blanked is the same before and after.                         *)
(***************************************************************************)
C2_RenamePositional ==
    (/\ pc = "done"
     /\ options.renameMap # <<>>
     /\ OptionsBut(options, options.renameMap, <<>>, FALSE, LocationMode("keep", 0)))
        => EraseNames(result.wikitext) = EraseNames(wikitext)

(***************************************************************************)
(* C3.  For every renameMap entry old -> new with new non-null, no tag     *)
(* and no {{r}} parameter of the output carries the name old (old being    *)
(* no name the maps rename to), under every location mode and shorthand    *)
(* preference.                                                             *)
(***************************************************************************)
RenameTargets(opts) ==
    {renameMapOf(opts)[i][2] : i \in 1..Len(renameMapOf(opts))}
    \cup {opts.renameNameless[i][2] : i \in 1..Len(opts.renameNameless)}

C3_RenameCompleteness ==
    pc = "done"
        => \A i \in 1..Len(renameMapOf(options)) :
              LET old == renameMapOf(options)[i][1]
                  new == renameMapOf(options)[i][2]
              IN  (new # Null /\ old \notin RenameTargets(options))
                    => old \notin NamesIn(result.wikitext)

(***************************************************************************)
(* C4.  With dedupe on, one {from, to} pair is reported per losing         *)
(* reference, and the losing name appears nowhere in the output.           *)
(***************************************************************************)
C4_DedupeMerge ==
    (pc = "done" /\ options.dedupe)
        => /\ \A i, j \in 1..Len(deduped) : deduped[i].from = deduped[j].from => i = j
           /\ \A i \in 1..Len(deduped) :
                 deduped[i].from # deduped[i].to
                    => deduped[i].from \notin NamesIn(result.wikitext)

(***************************************************************************)
(* C5.  With locationMode {minUsesForLdr: n}, a named reference with a     *)
(* body is list-defined (its body in the reflist block, no body in the     *)
(* running text) if and only if the uses of its canonical record number    *)
(* at least n; otherwise its definition is in the running text and not in  *)
(* the list block.                                                         *)
(***************************************************************************)
C5_ThresholdPlacement ==
    (/\ pc = "done"
     /\ options.locationMode.kind = "threshold"
     /\ OptionsBut(options, <<>>, <<>>, FALSE, options.locationMode))
        => \A i \in NamedBodies(ctx.refs) :
              LET ref == ctx.refs[i]
                  inList == ListDefs(result.wikitext, ref.name, ref.group)
                  inText == InlineDefs(result.wikitext, ref.name, ref.group)
              IN  IF Len(aggregateUses(ctx.refs, ref)) >= targetMode(options).minUsesForLdr
                  THEN inList # {} /\ inText = {}
                  ELSE inText # {} /\ inList = {}

(***************************************************************************)
(* C6.  When a {{r}} is expanded (useTemplateR off), every parameter whose *)
(* key is no name, group, page, pages or location alias is carried into a  *)
(* {{r}} of the output with the same key base and value, beside the same   *)
(* name: none is dropped, whatever its numeric suffix.                     *)
(***************************************************************************)
NameOfIndex(entries, index) ==
    LET hits == SelectSeq(entries, LAMBDA e : IsName(e) /\ e.index = index)
    IN  IF hits = <<>> THEN Null ELSE hits[1].value

Carried(text, entries, e) ==
    \E j \in 1..Len(text) :
        /\ text[j].k = "r"
        /\ LET out == parseRTemplateEntries(text[j].params)
           IN  \E k \in 1..Len(out) :
                  /\ out[k].kind = "other"
                  /\ out[k].kb = e.kb
                  /\ out[k].value = e.value
                  /\ NameOfIndex(out, out[k].index) = NameOfIndex(entries, e.index)

C6_LossyShorthand ==
    (pc = "done" /\ options = NoOptions)
        => \A t \in 1..Len(ctx.rTemplates) :
              LET entries == ctx.rTemplates[t].entries
              IN  \A k \in 1..Len(entries) :
                     entries[k].kind = "other" => Carried(result.wikitext, entries, entries[k])

(***************************************************************************)
(* C7.  Every unnamed record holds one occurrence under a key of its own,  *)
(* no canonical ever leads from or to an unnamed record other than itself, *)
(* and the unnamed tags of the text are, body for body, the unnamed tags   *)
(* of the output, under every combination of dedupe, locationMode,         *)
(* sortRefs, useTemplateR and normalizeAll.                                *)
(***************************************************************************)
UnnamedTags(text) == SelectSeq(text, LAMBDA a : a.k = "full" /\ a.name = Null)

UnnamedRecords(rs) == {i \in 1..Len(rs) : rs[i].name = Null}

UnnamedBodies(text) == [i \in 1..Len(UnnamedTags(text)) |-> UnnamedTags(text)[i].body]

C8_OneBodyInline ==
    (/\ pc = "done"
     /\ options.locationMode.kind \in {"all_inline", "threshold"}
     /\ OptionsBut(options, <<>>, <<>>, FALSE, options.locationMode))
        => \A i \in NamedBodies(ctx.refs) :
              LET ref == ctx.refs[i]
                  out == result.wikitext
                  inText == InlineDefs(out, ref.name, ref.group)
              IN  ref.targetLocation = "inline"
                    => /\ Cardinality(inText) = 1
                       /\ ListDefs(out, ref.name, ref.group) = {}
                       /\ \A d \in inText : \A j \in 0..(d - 1) : ref.name \notin NamesAt(out, j)

(***************************************************************************)
(* C9.  With only renameNameless set, the (k+1)-th unnamed reference of    *)
(* the text is named by the entry keyed __nameless_k when there is one;    *)
(* the entries whose key is no unnamed identity go, in map order, one each *)
(* to the references still unnamed, in document order; the others stay     *)
(* unnamed.                                                                *)
(***************************************************************************)
NamelessKey(k) == "__nameless_" \o ToString(k)

UnnamedOffsets(text) ==
    SelectSeq([i \in 1..Len(text) |-> i], LAMBDA i : text[i].k = "full" /\ text[i].name = Null)

ExpectedName(m, n, k) ==
    LET remaining == SelectSeq(m, LAMBDA e : e[1] \notin {NamelessKey(j) : j \in 0..(n - 1)})
        rank == Cardinality({j \in 0..(k - 1) : ~MapHas(m, NamelessKey(j))}) + 1
    IN  IF MapHas(m, NamelessKey(k)) THEN MapGet(m, NamelessKey(k))
        ELSE IF rank <= Len(remaining) THEN remaining[rank][2]
        ELSE Null

C9_RenameNameless ==
    (/\ pc = "done"
     /\ options.renameNameless # <<>>
     /\ OptionsBut(options, <<>>, options.renameNameless, FALSE, LocationMode("keep", 0)))
        => LET at == UnnamedOffsets(wikitext)
               out == result.wikitext
           IN  /\ Len(out) = Len(wikitext)
               /\ \A u \in 1..Len(at) :
                     /\ out[at[u]].k = "full"
                     /\ out[at[u]].body = wikitext[at[u]].body
                     /\ out[at[u]].name = ExpectedName(options.renameNameless, Len(at), u - 1)

(***************************************************************************)
(* C10.  A text whose use sites are all named self-closing tags, or all    *)
(* {{r}}, with the definitions in the reflist block, comes back unchanged  *)
(* from transformWikitext with the shorthand preference set one way and    *)
(* then the other, and only its use sites differ in between.               *)
(***************************************************************************)
UseSite(a) == a.k \in {"self", "r"}

\* The two ways round: tags first turned into {{r}} and back, or {{r}} first
\* turned into tags and back.  options is the second call's.
ToggleRun ==
    /\ pass = 2
    /\ pc = "done"
    /\ \/ (~options.useTemplateR /\ \A i \in 1..Len(source) : source[i].k # "r")
       \/ (options.useTemplateR /\ \A i \in 1..Len(source) : source[i].k # "self")

OnlyUseSitesDiffer(a, b) ==
    /\ Len(a) = Len(b)
    /\ \A i \in 1..Len(a) : a[i] # b[i] => (UseSite(a[i]) /\ UseSite(b[i]))

RoundTrip == result.wikitext = source /\ OnlyUseSitesDiffer(source, wikitext)

CanonicalTags(text) == \A i \in 1..Len(text) : text[i].k \in {"self", "full"} => text[i].raw = "c"

\* Between two use sites there is text or a line break, not just blanks.
UsesSeparated(text) ==
    \A i, j \in 1..Len(text) :
        (i < j /\ UseSite(text[i]) /\ UseSite(text[j]))
            => \E k \in (i + 1)..(j - 1) : text[k].k # "ws"

RpP2 == RpTpl(<<Param("p", 0, "2")>>)

\* {{r|a|p=2}}
RAP2 == RTpl(<<Param("", 0, "a"), Param("p", 0, "2")>>)

\* {{r|a|b|p2=3}}
RABP == RTpl(<<Param("", 0, "a"), Param("", 0, "b"), Param("p", 2, "3")>>)

DecoratedChunks ==
    {<<SelfA>>, <<SelfA, RpP2>>, <<SelfBG>>, <<RA>>, <<RAP2>>, <<RABP>>, <<RBG>>,
     <<Txt("t")>>, <<Ws>>, <<Nl>>}

InitDecorated == \E text \in Documents(DecoratedChunks, MaxChunks) : Call(text, NoOptions)

SpecDecorated == InitDecorated /\ [][NextToggle]_vars

(***************************************************************************)
(* C11.  Collapsing the expanded form of a text gives what collapsing the  *)
(* text itself gives: transformWikitext with useTemplateR on, applied to   *)
(* the result of transformWikitext with useTemplateR off, returns the text *)
(* that transformWikitext with useTemplateR on returns for the source.     *)
(***************************************************************************)
CollapseOptions == [NoOptions EXCEPT !.useTemplateR = TRUE]

C11_ExpandCollapse ==
    (pass = 2 /\ pc = "done")
        => result.wikitext = transformWikitext(source, CollapseOptions).wikitext

(***************************************************************************)
(* The family of blocked texts: any sequence of at most MaxTokens tokens,  *)
(* a token being a tag, a {{r}}, or the opening or closing marker of a     *)
(* comment, a <nowiki> or a <pre>; parseReferences lists its references.   *)
(***************************************************************************)
MaxTokens == 5

ComOpen == BOpen("comment")

ComClose == BClose("comment")

NowikiOpen == BOpen("nowiki")

NowikiClose == BClose("nowiki")

PreOpen == BOpen("pre")

PreClose == BClose("pre")

BlockTokens ==
    {<<ComOpen>>, <<ComClose>>, <<NowikiOpen>>, <<NowikiClose>>, <<PreOpen>>, <<PreClose>>,
     <<SelfA>>, <<FullBX>>, <<RA>>}

InitBlocks == \E text \in Documents(BlockTokens, MaxTokens) : Call(text, NoOptions)

NextBlocks == ParseReferences

SpecBlocks == InitBlocks /\ [][NextBlocks]_vars

\* The positions of a text that lie in a block: reading from the left, an
\* opening marker with a closing marker of its kind after it opens a block
\* that runs to the first such marker, whatever stands in between.
RECURSIVE BlockedFrom(_, _)
BlockedFrom(text, i) ==
    IF i > Len(text) THEN {}
    ELSE IF text[i].k = "bopen" /\ FirstClose(text, text[i].name, i + 1) # 0
    THEN (i .. FirstClose(text, text[i].name, i + 1))
            \cup BlockedFrom(text, FirstClose(text, text[i].name, i + 1) + 1)
    ELSE BlockedFrom(text, i + 1)

\* The occurrences <<position, name>> of named references outside the blocks,
\* and the unnamed tags outside the blocks.
VisibleUses(text) ==
    {<<i, n>> \in (1..Len(text)) \X NamesIn(text) :
        i \notin BlockedFrom(text, 1) /\ n \in NamesAt(text, i - 1)}

VisibleUnnamed(text) ==
    {i \in 1..Len(text) : /\ i \notin BlockedFrom(text, 1)
                          /\ text[i].k \in {"full", "self"}
                          /\ text[i].name = Null}

RECURSIVE SumUses(_)
SumUses(rs) == IF rs = <<>> THEN 0 ELSE Len(Head(rs).uses) + SumUses(Tail(rs))

(***************************************************************************)
(* C12.  parseReferences counts, for every name, exactly the uses that lie *)
(* outside the comment, <nowiki>, <pre> and <syntaxhighlight> blocks: it   *)
(* reports nothing for markup inside a block and everything outside.       *)
(***************************************************************************)
C12_ParseIgnoresBlocks ==
    pc = "listed"
        => /\ \A n \in NamesIn(wikitext) :
                 SumUses(SelectSeq(references, LAMBDA r : r.name = n))
                    = Cardinality({u \in VisibleUses(wikitext) : u[2] = n})
           /\ \A i \in 1..Len(references) : references[i].name \in NamesIn(wikitext) \cup {Null}
           /\ SumUses(SelectSeq(references, LAMBDA r : r.name = Null))
                 = Cardinality(VisibleUnnamed(wikitext))

(***************************************************************************)
(* The inspector panel.  refs are the references the panel shows,          *)
(* pendingChanges the queued renames {refId, oldName, newName},            *)
(* editingRefId the row being edited; saved tells how the last saveChanges *)
(* ended: "blocked" (conflicts), "nothing" (no pending change),            *)
(* "unchanged" or "preview" (transformWikitext was called, and the diff    *)
(* preview opened in the latter case), and is "idle" after any other       *)
(* handler.  The page the panel works on is wikitext.                      *)
(***************************************************************************)
DEFAULT_SETTINGS ==
    [placementMode |-> "keep", minUsesForLdr |-> 2, useTemplateR |-> FALSE,
     makeCopies |-> FALSE, normalizeAll |-> FALSE]

settingsToTransformOptions(settings, renameMap, renameNameless) ==
    LET placementMode ==
            IF settings.placementMode \in {"keep", "all_inline", "all_ldr"}
            THEN LocationMode(settings.placementMode, 0)
            ELSE LocationMode("threshold", Max2(1, settings.minUsesForLdr))
    IN  TransformOptions(renameMap, renameNameless, ~settings.makeCopies, placementMode,
                         FALSE, settings.useTemplateR, settings.normalizeAll)

\* The names that more than one of the references carries.
nameConflicts(rs) ==
    {n \in {rs[i].name : i \in 1..Len(rs)} \ {Null} :
        Cardinality({i \in 1..Len(rs) : rs[i].name = n}) > 1}

hasConflicts(rs) == nameConflicts(rs) # {}

\* pendingChanges.findIndex((c) => c.refId === id), 0 when there is none.
PendingIndex(pending, id) ==
    IF \E k \in 1..Len(pending) : pending[k].refId = id
    THEN CHOOSE k \in 1..Len(pending) :
            pending[k].refId = id /\ \A j \in 1..(k - 1) : pending[j].refId # id
    ELSE 0

\* pendingChanges.splice(k, 1)
Splice(s, k) == SubSeq(s, 1, k - 1) \o SubSeq(s, k + 1, Len(s))

\* A commit that queues a new entry for every edit.
commitRefNameQueueing(rs, pending, i, nextName) ==
    [refs |-> [rs EXCEPT ![i].name = nextName],
     pendingChanges |-> Append(pending, [refId |-> rs[i].id, oldName |-> rs[i].name,
                                         newName |-> nextName])]

\* commitRefName on the reference at index i, as [refs, pendingChanges].
commitRefNameOf(rs, pending, i, nextName) ==
    LET k == PendingIndex(pending, rs[i].id)
        oldName == IF k # 0 THEN pending[k].oldName ELSE rs[i].name
    IN  IF nextName = oldName
        THEN IF k # 0
             THEN [refs |-> [rs EXCEPT ![i].name = oldName], pendingChanges |-> Splice(pending, k)]
             ELSE [refs |-> rs, pendingChanges |-> pending]
        ELSE [refs |-> [rs EXCEPT ![i].name = nextName],
              pendingChanges |->
                  IF k # 0 THEN [pending EXCEPT ![k].newName = nextName]
                  ELSE Append(pending, [refId |-> rs[i].id, oldName |-> oldName,
                                        newName |-> nextName])]

commitRefName(i, newName) ==
    /\ i \in 1..Len(refs)
    /\ LET next == commitRefNameOf(refs, pendingChanges, i, newName)
       IN  refs' = next.refs /\ pendingChanges' = next.pendingChanges
    /\ editingRefId' = Null
    /\ saved' = "idle"
    /\ UNCHANGED <<given, scan, wikitext, options, pc, ctx, deduped, plan, result, source, pass, references>>

cancelEditRefName(i) ==
    /\ i \in 1..Len(refs)
    /\ LET k == PendingIndex(pendingChanges, refs[i].id)
       IN  IF k # 0
           THEN /\ refs' = [refs EXCEPT ![i].name = pendingChanges[k].oldName]
                /\ pendingChanges' = Splice(pendingChanges, k)
           ELSE UNCHANGED <<refs, pendingChanges>>
    /\ editingRefId' = Null
    /\ saved' = "idle"
    /\ UNCHANGED <<given, scan, wikitext, options, pc, ctx, deduped, plan, result, source, pass, references>>

\* The body of the loop of applyMassRename on the reference at index i.
applyMassRenameStep(st, i, renameMap, renameNameless) ==
    LET ref == st.refs[i]
        currentName == ref.name
        known == IF currentName # Null THEN MapHas(renameMap, currentName)
                 ELSE MapHas(renameNameless, ref.id)
        proposed == IF currentName # Null THEN MapGet(renameMap, currentName)
                    ELSE MapGet(renameNameless, ref.id)
        k == PendingIndex(st.pendingChanges, ref.id)
        originalName == IF k # 0 THEN st.pendingChanges[k].oldName ELSE currentName
    IN  IF ~known \/ proposed = Null THEN st
        ELSE IF proposed = originalName
        THEN [refs |-> [st.refs EXCEPT ![i].name = originalName],
              pendingChanges |-> IF k # 0 THEN Splice(st.pendingChanges, k) ELSE st.pendingChanges]
        ELSE [refs |-> [st.refs EXCEPT ![i].name = proposed],
              pendingChanges |->
                  IF k # 0 THEN [st.pendingChanges EXCEPT ![k].newName = proposed]
                  ELSE Append(st.pendingChanges,
                              [refId |-> ref.id, oldName |-> originalName, newName |-> proposed])]

RECURSIVE applyMassRenameFrom(_, _, _, _)
applyMassRenameFrom(st, i, renameMap, renameNameless) ==
    IF i > Len(st.refs) THEN st
    ELSE applyMassRenameFrom(applyMassRenameStep(st, i, renameMap, renameNameless), i + 1,
                             renameMap, renameNameless)

applyMassRename(renameMap, renameNameless) ==
    /\ LET next == applyMassRenameFrom([refs |-> refs, pendingChanges |-> pendingChanges], 1,
                                       renameMap, renameNameless)
       IN  refs' = next.refs /\ pendingChanges' = next.pendingChanges
    /\ editingRefId' = Null
    /\ saved' = "idle"
    /\ UNCHANGED <<given, scan, wikitext, options, pc, ctx, deduped, plan, result, source, pass, references>>

\* setRefs(nextRefs), nextRefs being the references of the page parsed anew.
setRefs(nextRefs) ==
    /\ refs' = nextRefs
    /\ saved' = "idle"
    /\ UNCHANGED <<given, scan, wikitext, options, pc, ctx, deduped, plan, result, source, pass, references,
                   pendingChanges, editingRefId>>

\* The renameMap (named = TRUE) or renameNameless (named = FALSE) saveChanges
\* builds from pendingChanges; a later change of a key overwrites the value
\* in place.
RECURSIVE pendingMap(_, _, _)
pendingMap(pending, named, m) ==
    IF pending = <<>> THEN m
    ELSE LET c == Head(pending)
             key == IF named THEN c.oldName ELSE c.refId
             takes == c.newName # Null /\ c.oldName # c.newName /\ ((c.oldName # Null) = named)
             m1 == IF ~takes THEN m
                   ELSE IF MapHas(m, key)
                   THEN [j \in 1..Len(m) |-> IF m[j][1] = key THEN <<key, c.newName>> ELSE m[j]]
                   ELSE Append(m, <<key, c.newName>>)
         IN  pendingMap(Tail(pending), named, m1)

saveChanges ==
    /\ IF hasConflicts(refs)
       THEN saved' = "blocked"
       ELSE IF pendingChanges = <<>>
       THEN saved' = "nothing"
       ELSE LET transformOpts ==
                    settingsToTransformOptions(DEFAULT_SETTINGS,
                                               pendingMap(pendingChanges, TRUE, <<>>),
                                               pendingMap(pendingChanges, FALSE, <<>>))
                base == wikitext
            IN  saved' = IF transformWikitext(base, transformOpts).wikitext = base
                         THEN "unchanged" ELSE "preview"
    /\ UNCHANGED <<given, scan, wikitext, options, pc, ctx, deduped, plan, result, source, pass, references,
                   refs, pendingChanges, editingRefId>>

\* The page of the panel: three references, one of them unnamed.
PanelPage == <<FullAX, FullBX, FullUX>>

PanelNames == {"a", "b", "c", Null}

PanelRenameMaps == {<<>>, <<<<"a", "b">>>>, <<<<"a", "c">>, <<"b", "a">>>>}

PanelRenameNameless == {<<>>, <<<<"__nameless_0", "a">>>>}

InitPanel ==
    /\ wikitext = PanelPage
    /\ options = NoOptions
    /\ source = PanelPage
    /\ pc = "panel"
    /\ ctx = NoCtx
    /\ deduped = <<>>
    /\ plan = NoPlan
    /\ result = NoResult
    /\ pass = 1
    /\ references = parseReferences(PanelPage)
    /\ refs = parseReferences(PanelPage)
    /\ pendingChanges = <<>>
    /\ editingRefId = Null
    /\ saved = "idle"
    /\ given = <<>>
    /\ scan = NoScan

NextPanel ==
    \/ \E i \in 1..Len(refs), newName \in PanelNames : commitRefName(i, newName)
    \/ \E i \in 1..Len(refs) : cancelEditRefName(i)
    \/ \E renameMap \in PanelRenameMaps, renameNameless \in PanelRenameNameless :
          applyMassRename(renameMap, renameNameless)
    \/ setRefs(parseReferences(wikitext))
    \/ saveChanges

SpecPanel == InitPanel /\ [][NextPanel]_vars

\* The names the references of the page get when the queued changes are
\* applied, and whether two of them get the same name.
QueuedName(ref, pending) ==
    IF PendingIndex(pending, ref.id) # 0 THEN pending[PendingIndex(pending, ref.id)].newName
    ELSE ref.name

QueuedConflict ==
    LET page == parseReferences(wikitext)
    IN  \E i, j \in 1..Len(page) :
           /\ i # j
           /\ QueuedName(page[i], pendingChanges) # Null
           /\ QueuedName(page[i], pendingChanges) = QueuedName(page[j], pendingChanges)

(***************************************************************************)
(* C13.  Whenever applying the queued pendingChanges would give two        *)
(* references the same name, saveChanges returns without calling           *)
(* transformWikitext and without opening the diff preview.                 *)
(***************************************************************************)
C13_ConflictsBlockSaving ==
    saved \in {"unchanged", "preview"} => ~QueuedConflict

(***************************************************************************)
(* Texts with reference markup inside comment and <nowiki> blocks, under   *)
(* transformWikitext.                                                      *)
(***************************************************************************)
SpanTokens ==
    {<<ComOpen>>, <<ComClose>>, <<NowikiOpen>>, <<NowikiClose>>, <<FullAX>>, <<SelfA>>, <<RA>>}

MaxSpanTokens == 3

SpanOptions ==
    {[NoOptions EXCEPT !.renameMap = m, !.dedupe = d, !.locationMode = l, !.useTemplateR = t] :
        m \in {<<>>, <<<<"a", "b">>>>}, d \in BOOLEAN, l \in LocationModes, t \in BOOLEAN}

InitSpans ==
    \E text \in Documents(SpanTokens, MaxSpanTokens), opts \in SpanOptions : Call(text, opts)

SpecSpans == InitSpans /\ [][Transform]_vars

RECURSIVE AtomsAt(_, _, _)
AtomsAt(text, positions, i) ==
    IF i > Len(text) THEN <<>>
    ELSE (IF i \in positions THEN <<text[i]>> ELSE <<>>) \o AtomsAt(text, positions, i + 1)

\* The blocks of a text, markers included, one after the other.
BlockedText(text) == AtomsAt(text, BlockedFrom(text, 1), 1)

\* The occurrences parseWikitext recorded for the records of the context.
RecordedStarts ==
    UNION {{u.start : u \in Range(ctx.refs[i].definitions) \cup Range(ctx.refs[i].uses)
                              \cup Range(ctx.refs[i].ldrDefinitions)} : i \in 1..Len(ctx.refs)}

(***************************************************************************)
(* C14.  transformWikitext takes no occurrence from inside a comment or a  *)
(* <nowiki>, <pre> or <syntaxhighlight> block: no use or definition of a   *)
(* record starts inside a block, and the blocks of the text are the blocks *)
(* of the result, unchanged, under every renameMap, dedupe, locationMode   *)
(* and useTemplateR setting.                                               *)
(***************************************************************************)
C14_BlocksUntouched ==
    /\ pc = "parsed" => \A s \in RecordedStarts : s + 1 \notin BlockedFrom(wikitext, 1)
    /\ pc = "done" => BlockedText(result.wikitext) = BlockedText(wikitext)

(***************************************************************************)
(* Texts with unnamed references in the running text and in the refs=      *)
(* block of the reflist, under every location mode, with and without the   *)
(* rename that strips the name a.                                          *)
(***************************************************************************)
StripA == <<<<"a", Null>>>>

ListedChunks == {<<FullUX>>, <<FullAX>>, <<SelfA>>}

ListedLists == {LdrList(<<FullUX>>), LdrList(<<FullAX>>), LdrList(<<FullAX, FullUX>>)}

ListedOptions ==
    {[NoOptions EXCEPT !.renameMap = m, !.dedupe = d, !.locationMode = l] :
        m \in {<<>>, StripA}, d \in BOOLEAN, l \in LocationModes}

InitListed ==
    \E text \in Documents(ListedChunks, MaxChunks), list \in ListedLists, opts \in ListedOptions :
        Call(text \o list, opts)

SpecListed == InitListed /\ [][Transform]_vars

(***************************************************************************)
(* C15.  After assignLocations every record without a name has the target  *)
(* location inline, under keep, all_inline, all_ldr and every threshold,   *)
(* also when the record comes from an unnamed <ref> in the refs= block or  *)
(* lost its name to a null rename.                                         *)
(***************************************************************************)
C15_UnnamedInline ==
    pc = "located"
        => \A i \in 1..Len(ctx.refs) :
              ctx.refs[i].name = Null => ctx.refs[i].targetLocation = "inline"

(***************************************************************************)
(* Texts whose reflist block declares the reference a, which the running   *)
(* text never uses.                                                        *)
(***************************************************************************)
DeclaredChunks == {<<Txt("t")>>, <<SelfBG>>, <<RBG>>, <<Nl>>}

DeclaredLists == {LdrList(<<FullAX>>), LdrList(<<FullAX, FullBGY>>), LdrList(<<FullBGY, FullAX>>)}

DeclaredOptions ==
    {[NoOptions EXCEPT !.dedupe = d, !.locationMode = l, !.useTemplateR = t, !.sortRefs = s] :
        d \in BOOLEAN, l \in LocationModes, t \in BOOLEAN, s \in BOOLEAN}

InitDeclared ==
    \E text \in Documents(DeclaredChunks, MaxChunks), list \in DeclaredLists,
       opts \in DeclaredOptions :
        Call(text \o list, opts)

SpecDeclared == InitDeclared /\ [][Transform]_vars

(***************************************************************************)
(* C16.  When the list is rebuilt (all_inline, all_ldr, threshold), the     *)
(* reference a, defined with a body in the refs= block and used nowhere,   *)
(* is in the refs= block of the result with its body.                      *)
(***************************************************************************)
C16_DeclaredKept ==
    (pc = "done" /\ options.locationMode.kind # "keep")
        => \E i \in ListDefs(result.wikitext, "a", Null) : result.wikitext[i + 1].body = X

(***************************************************************************)
(* Texts citing the name a without a group and in the group g, in every    *)
(* syntax, read by parseReferences and by transformWikitext.               *)
(***************************************************************************)
SelfAG == SelfRef("a", "g", "c")

FullAGY == FullRef("a", "g", "c", Y)

\* {{r|a|group=g}}
RAG == RTpl(<<Param("", 0, "a"), Param("group", 0, "g")>>)

GroupedChunks == {<<SelfA>>, <<SelfAG>>, <<FullAX>>, <<FullAGY>>, <<RA>>, <<RAG>>}

InitGrouped == \E text \in Documents(GroupedChunks, MaxChunks) : Call(text, NoOptions)

NextGrouped == ParseReferences \/ Transform

SpecGrouped == InitGrouped /\ [][NextGrouped]_vars

\* The group a name entry of a {{r}} is cited in: the group entry of its index.
RGroupOf(entries, e) ==
    LET gs == SelectSeq(entries, LAMBDA x : x.kind = "group" /\ x.index = e.index)
    IN  IF gs = <<>> THEN Null ELSE gs[1].value

\* The pairs <<name, group>> the atom at position i cites or defines.
PairsAt(text, i) ==
    LET a == text[i]
        entries == parseRTemplateEntries(a.params)
    IN  IF a.k \in {"full", "self"} /\ a.name # Null THEN {<<a.name, a.group>>}
        ELSE IF a.k = "r" THEN {<<e.value, RGroupOf(entries, e)>> : e \in Range(SelectSeq(entries, IsName))}
        ELSE {}

PairsIn(text) == UNION {PairsAt(text, i) : i \in 1..Len(text)}

Occurrences(text, pair) == {i \in 1..Len(text) : pair \in PairsAt(text, i)}

\* rs holds exactly one entry of the pair, and that entry has n uses.
OneWithUses(rs, pair, n) ==
    LET of == SelectSeq(rs, LAMBDA r : r.name = pair[1] /\ r.group = pair[2])
    IN  Len(of) = 1 /\ Len(of[1].uses) = n

(***************************************************************************)
(* C17.  Both parseReferences and the record builder of transformWikitext  *)
(* keep one reference per pair (name, group): the occurrences of a pair    *)
(* are the uses of one entry, and the same name in two groups gives two    *)
(* entries.                                                                *)
(***************************************************************************)
C17_PairIdentity ==
    /\ pc = "listed"
          => \A pair \in PairsIn(wikitext) :
                OneWithUses(references, pair, Cardinality(Occurrences(wikitext, pair)))
    /\ pc = "parsed"
          => \A pair \in PairsIn(wikitext) :
                OneWithUses(ctx.refs, pair, Cardinality(Occurrences(wikitext, pair)))

(***************************************************************************)
(* collapseRefsAndRp on one run of adjacent <ref/>, {{r}} and {{rp}}       *)
(* tokens, some of them with an {{rp}} parameter it cannot represent.      *)
(***************************************************************************)
\* {{rp|quote=x}}
RpQuote == RpTpl(<<Param("quote", 0, "x")>>)

RunChunks ==
    {<<SelfA>>, <<SelfB>>, <<RA>>, <<SelfA, RpP2>>, <<SelfB, RpQuote>>, <<RA, RpQuote>>, <<Ws>>}

InitRuns ==
    \E text \in Documents(RunChunks, MaxChunks), r \in BOOLEAN :
        Call(text, [NoOptions EXCEPT !.useTemplateR = r])

\* result = collapseRefsAndRp(text, useTemplateR)
Collapse ==
    /\ pc = "start"
    /\ result' = [NoResult EXCEPT !.wikitext = collapseRefsAndRp(wikitext, options.useTemplateR)]
    /\ pc' = "collapsed"
    /\ UNCHANGED <<given, scan, wikitext, options, ctx, deduped, plan, source, pass, panel>>

SpecRuns == InitRuns /\ [][Collapse]_vars

HasUnsupportedRp(text) == \E i \in 1..Len(text) : text[i].k = "rp" /\ parseRp(text[i]).unsupported

(***************************************************************************)
(* C18.  With useTemplateR on, a run in which some {{rp}} carries a        *)
(* parameter other than page, pages, location or group is returned as it   *)
(* was: none of its tokens is merged into a chained {{r}}.                 *)
(***************************************************************************)
C18_CollapseAbstains ==
    (pc = "collapsed" /\ options.useTemplateR /\ HasUnsupportedRp(wikitext))
        => result.wikitext = wikitext

(***************************************************************************)
(* One {{r}} with at most MaxParams parameters: names, and group, page,    *)
(* pages and location parameters with and without a numeric suffix.        *)
(***************************************************************************)
MaxParams == 3

ShorthandParams ==
    {Param("", 0, "a"), Param("", 0, "b"), Param("n", 2, "c"), Param("p", 0, "2"),
     Param("p", 2, "3"), Param("pp", 0, "4"), Param("loc", 0, "5"), Param("group", 0, "g"),
     Param("group", 2, "h")}

InitShorthand ==
    \E k \in 0..MaxParams : \E params \in [1..k -> ShorthandParams] :
        Call(<<RTpl(params)>>, NoOptions)

SpecShorthand == InitShorthand /\ [][Parse]_vars

\* The last name entry before entry j, or 0.
LastNameBefore(entries, j) ==
    IF \E i \in 1..(j - 1) : IsName(entries[i])
    THEN CHOOSE i \in 1..(j - 1) : IsName(entries[i]) /\ \A h \in (i + 1)..(j - 1) : ~IsName(entries[h])
    ELSE 0

(***************************************************************************)
(* C19.  In the entries of a {{r}}, a group, page, pages or location       *)
(* parameter with the numeric suffix i has the index i, and one without a  *)
(* suffix has the index of the name seen last before it.                   *)
(***************************************************************************)
C19_SuffixBinding ==
    pc = "parsed"
        => \A t \in 1..Len(ctx.rTemplates) :
              LET entries == ctx.rTemplates[t].entries
              IN  \A j \in 1..Len(entries) :
                     entries[j].kind \in {"group", "page", "pages", "at"}
                        => IF entries[j].ki # 0 THEN entries[j].index = entries[j].ki
                           ELSE LastNameBefore(entries, j) # 0
                                   => entries[j].index = entries[LastNameBefore(entries, j)].index

(***************************************************************************)
(* One chained {{r}} of at most MaxNames names.  The name at position i is *)
(* plain, or carries a page, a location, a group, a parameter the engine   *)
(* does not know (lang), or such a parameter with a page or a group; the   *)
(* parameters of a name follow it directly ("interleaved"), written        *)
(* without suffix for the first name, or stand with their suffix after all *)
(* the names ("trailing") or before them ("leading").                      *)
(***************************************************************************)
MaxNames == 3

UnitName(i) == <<"a", "b", "c", "d">>[i]

UnitKinds == {"plain", "page", "loc", "group", "other", "pageother", "groupother"}

UnknownKinds == {"other", "pageother", "groupother"}

UnitParams(i, kind, layout) ==
    LET suffix == IF i = 1 /\ layout = "interleaved" THEN 0 ELSE i
    IN  (IF kind \in {"group", "groupother"} THEN <<Param("group", suffix, "g")>> ELSE <<>>)
        \o (IF kind \in {"page", "pageother"} THEN <<Param("p", suffix, "2")>> ELSE <<>>)
        \o (IF kind = "loc" THEN <<Param("loc", suffix, "5")>> ELSE <<>>)
        \o (IF kind \in UnknownKinds THEN <<Param("lang", suffix, "en")>> ELSE <<>>)

ChainedR(kinds, layout) ==
    IF layout = "interleaved"
    THEN RTpl(Flatten([i \in 1..Len(kinds) |->
                          <<Param("", 0, UnitName(i))>> \o UnitParams(i, kinds[i], layout)]))
    ELSE IF layout = "trailing"
    THEN RTpl([i \in 1..Len(kinds) |-> Param("", 0, UnitName(i))]
              \o Flatten([i \in 1..Len(kinds) |-> UnitParams(i, kinds[i], layout)]))
    ELSE RTpl(Flatten([i \in 1..Len(kinds) |-> UnitParams(i, kinds[i], layout)])
              \o [i \in 1..Len(kinds) |-> Param("", 0, UnitName(i))])

Layouts == {"interleaved", "trailing", "leading"}

ChainedKinds == UNION {[1..k -> UnitKinds] : k \in 1..MaxNames}

InitChained ==
    \E kinds \in ChainedKinds, layout \in Layouts :
        Call(<<ChainedR(kinds, layout)>>, NoOptions)

SpecChained == InitChained /\ [][Transform]_vars

\* What a token says: a tag its name and group, an {{rp}} its page, pages
\* and location, a {{r}} its names in order and its other parameters.
TokenSays(a) ==
    IF a.k = "self" THEN <<"ref", a.name, a.group>>
    ELSE IF a.k = "rp" THEN <<"rp", parseRp(a).page, parseRp(a).pages, parseRp(a).at>>
    ELSE IF a.k = "r"
    THEN <<"r", [i \in 1..Len(SelectSeq(a.params, LAMBDA p : p.kb \in NameKeys)) |->
                    SelectSeq(a.params, LAMBDA p : p.kb \in NameKeys)[i].val],
           {<<p.kb, p.ki, p.val>> : p \in {q \in Range(a.params) : q.kb \notin NameKeys}}>>
    ELSE <<"text">>

\* The {{r}} for a run of names with a parameter the engine does not know:
\* run lists their positions in the source; keys are renumbered from 1.
RunSays(kinds, run) ==
    <<"r", [j \in 1..Len(run) |-> UnitName(run[j])],
      UNION {{<<p.kb, IF j = 1 THEN 0 ELSE j, p.val>> :
                 p \in Range(UnitParams(run[j], kinds[run[j]], "interleaved"))} :
             j \in 1..Len(run)}>>

\* The expansion of the chained {{r}}: tags for the names whose parameters
\* are all known, one {{r}} for each maximal run of the others, in order.
RECURSIVE ExpansionSays(_, _, _)
ExpansionSays(kinds, i, run) ==
    LET flushed == IF run = <<>> THEN <<>> ELSE <<RunSays(kinds, run)>>
    IN  IF i > Len(kinds) THEN flushed
        ELSE IF kinds[i] \in UnknownKinds THEN ExpansionSays(kinds, i + 1, Append(run, i))
        ELSE flushed
             \o <<<<"ref", UnitName(i), IF kinds[i] = "group" THEN "g" ELSE Null>>>>
             \o (IF kinds[i] = "page" THEN <<<<"rp", "2", Null, Null>>>>
                 ELSE IF kinds[i] = "loc" THEN <<<<"rp", Null, Null, "5">>>>
                 ELSE <<>>)
             \o ExpansionSays(kinds, i + 1, <<>>)

\* The kinds a chained {{r}} of the family was built from: the parameters of
\* position i are those with the suffix i, and those without suffix for i = 1.
KindAt(params, i) ==
    LET has(kb) == \E j \in 1..Len(params) :
                      params[j].kb = kb /\ (IF params[j].ki = 0 THEN 1 ELSE params[j].ki) = i
    IN  IF has("lang")
        THEN (IF has("p") THEN "pageother" ELSE IF has("group") THEN "groupother" ELSE "other")
        ELSE IF has("p") THEN "page"
        ELSE IF has("loc") THEN "loc"
        ELSE IF has("group") THEN "group"
        ELSE "plain"

KindsOf(atom) ==
    [i \in 1..Len(SelectSeq(atom.params, LAMBDA p : p.kb = "")) |-> KindAt(atom.params, i)]

Said(text) ==
    LET tokens == SelectSeq(text, LAMBDA a : ~IsBlank(a))
    IN  [i \in 1..Len(tokens) |-> TokenSays(tokens[i])]

(***************************************************************************)
(* C20.  Expanding a chained {{r}} (useTemplateR off) writes its names in  *)
(* source order: a name whose parameters are all known becomes a           *)
(* self-closing tag with its group, followed by an {{rp}} when it has a    *)
(* page, and each maximal run of names with an unknown parameter becomes   *)
(* one {{r}} whose keys are renumbered 1..k in run order, index 1 without  *)
(* suffix.                                                                 *)
(***************************************************************************)
C20_ExpandRegrouping ==
    pc = "done"
        => Said(result.wikitext) = ExpansionSays(KindsOf(source[1]), 1, <<>>)

\* A name with known parameters, then a run of two names with an unknown
\* parameter each, has been expanded.
C20_RunRenumbered ==
    /\ pc = "done"
    /\ source = <<ChainedR(<<"page", "other", "pageother">>, "trailing")>>
    /\ Said(result.wikitext)
         = << <<"ref", "a", Null>>, <<"rp", "2", Null, Null>>,
              <<"r", <<"b", "c">>, {<<"lang", 0, "en">>, <<"p", 2, "2">>, <<"lang", 2, "en">>}>> >>

(***************************************************************************)
(* Texts in which a {{r}} or a self-closing tag stands inside the body of  *)
(* a <ref>...</ref>, next to plain tags and templates.                     *)
(***************************************************************************)
NestedChunks ==
    {<<FOpen("a", Null), Txt("X"), RB, FClose>>, <<FOpen("a", Null), Txt("X"), SelfB, FClose>>,
     <<FullBX>>, <<SelfA>>, <<RB>>, <<Txt("t")>>}

MaxNested == 2

NestedOptions ==
    {[NoOptions EXCEPT !.renameMap = m, !.useTemplateR = t, !.locationMode = l] :
        m \in {<<>>, <<<<"a", "c">>>>, <<<<"b", "c">>>>}, t \in BOOLEAN,
        l \in {LocationMode("keep", 0), LocationMode("all_ldr", 0), LocationMode("all_inline", 0)}}

InitNested ==
    \E text \in Documents(NestedChunks, MaxNested), opts \in NestedOptions : Call(text, opts)

SpecNested == InitNested /\ [][Transform]_vars

Overlap(a, b) == a.start < b.end /\ b.start < a.end

(***************************************************************************)
(* C21.  The replacements of the plan are one per span at most, and no two *)
(* of them overlap, also when a {{r}} or a self-closing tag stands inside  *)
(* the body of a <ref>...</ref> that is rewritten.                         *)
(***************************************************************************)
C21_PlanNonOverlap ==
    pc = "planned"
        => \A i, j \in 1..Len(plan.replacements) :
              i # j => /\ <<plan.replacements[i].start, plan.replacements[i].end>>
                            # <<plan.replacements[j].start, plan.replacements[j].end>>
                       /\ ~Overlap(plan.replacements[i], plan.replacements[j])

(***************************************************************************)
(* collapseReplacements and applyReplacements on their own: a text of      *)
(* three characters and lists of replacements as buildReplacementPlan      *)
(* pushes them, each over a span of the text or appended after it.         *)
(***************************************************************************)
Sample == <<Txt("0"), Txt("1"), Txt("2")>>

MaxGiven == 3

SampleTexts == {<<>>, <<Txt("p"), Txt("q")>>}

SampleReplacements ==
    {Replacement(s, e, t) : s \in 0..(Len(Sample) - 1), e \in 1..Len(Sample), t \in SampleTexts}
    \cup {Replacement(MAX_SAFE_INTEGER, MAX_SAFE_INTEGER, <<Txt("z")>>)}

GivenLists ==
    UNION {[1..n -> {r \in SampleReplacements : r.start < r.end \/ r.start = MAX_SAFE_INTEGER}] :
              n \in 0..MaxGiven}

InitReplacements ==
    /\ wikitext = Sample
    /\ options = NoOptions
    /\ source = Sample
    /\ pc = "start"
    /\ ctx = NoCtx
    /\ deduped = <<>>
    /\ plan = NoPlan
    /\ result = NoResult
    /\ pass = 1
    /\ references = <<>>
    /\ refs = <<>>
    /\ pendingChanges = <<>>
    /\ editingRefId = Null
    /\ saved = "idle"
    /\ given \in GivenLists
    /\ scan = NoScan

\* collapsed = collapseReplacements(replacements)
CollapseReplacements ==
    /\ pc = "start"
    /\ plan' = [NoPlan EXCEPT !.replacements = collapseReplacements(given)]
    /\ pc' = "unique"
    /\ UNCHANGED <<given, scan, wikitext, options, ctx, deduped, result, source, pass, panel>>

\* replaced = applyReplacements(source, replacements)
ApplyReplacements ==
    /\ pc = "start"
    /\ result' = [NoResult EXCEPT !.wikitext = applyReplacements(wikitext, given)]
    /\ pc' = "applied"
    /\ UNCHANGED <<given, scan, wikitext, options, ctx, deduped, plan, source, pass, panel>>

NextReplacements == CollapseReplacements \/ ApplyReplacements

SpecReplacements == InitReplacements /\ [][NextReplacements]_vars

SameSpan(a, b) == a.start = b.start /\ a.end = b.end

\* The replacement added last among those of the list with the span of r.
LastAdded(rs, r) ==
    rs[CHOOSE i \in 1..Len(rs) :
          SameSpan(rs[i], r) /\ \A j \in (i + 1)..Len(rs) : ~SameSpan(rs[j], r)]

(***************************************************************************)
(* C22.  collapseReplacements keeps one replacement for each (start, end)  *)
(* span of the list, and of several replacements with the same span it     *)
(* keeps the one that was added last.                                      *)
(***************************************************************************)
C22_LaterWins ==
    pc = "unique"
        => /\ \A i, j \in 1..Len(plan.replacements) :
                 i # j => ~SameSpan(plan.replacements[i], plan.replacements[j])
           /\ \A k \in 1..Len(given) :
                 \E i \in 1..Len(plan.replacements) : plan.replacements[i] = LastAdded(given, given[k])

NonOverlapping(rs) == \A i, j \in 1..Len(rs) : i # j => ~Overlap(rs[i], rs[j])

\* The text from offset i on, in which the span of each replacement is
\* taken by the text of the replacement and the other characters stay.
RECURSIVE RewrittenFrom(_, _, _)
RewrittenFrom(text, rs, i) ==
    IF i >= Len(text)
    THEN Flatten([k \in 1..Len(rs) |-> IF rs[k].start >= Len(text) THEN rs[k].text ELSE <<>>])
    ELSE IF \E k \in 1..Len(rs) : rs[k].start = i
         THEN LET r == rs[CHOOSE k \in 1..Len(rs) : rs[k].start = i]
              IN  r.text \o RewrittenFrom(text, rs, r.end)
    ELSE <<text[i + 1]>> \o RewrittenFrom(text, rs, i + 1)

(***************************************************************************)
(* C23.  For replacements of which no two overlap, applyReplacements       *)
(* returns the text in which each span holds the text of its replacement  *)
(* and every other character is kept in its order, in whatever order the   *)
(* replacements are listed; a replacement beyond the end of the text is    *)
(* appended to it.                                                         *)
(***************************************************************************)
C23_ApplyReplacements ==
    pc = "applied" /\ NonOverlapping(given)
        => result.wikitext = RewrittenFrom(wikitext, given, 0)

\* Three replacements listed against the order of the text, the appended one
\* first, with texts longer and shorter than their spans.
C23_ListedBackwards ==
    /\ pc = "applied"
    /\ NonOverlapping(given)
    /\ Len(given) = 3
    /\ given[1].start = MAX_SAFE_INTEGER
    /\ given[2].start > given[3].start
    /\ given[3].text = <<>>
    /\ given[2].text # <<>>
    /\ result.wikitext = <<Txt("1"), Txt("p"), Txt("q"), Txt("z")>>

(***************************************************************************)
(* The loop of findTemplates, one iteration at a time, on texts of list    *)
(* templates and other templates that are closed or not.                   *)
(***************************************************************************)
ScanTokens ==
    {LOpen("reflist", "plain"), LOpen("references", "plain"), LOpen("cite", "plain"),
     LClose, RA, Txt("t")}

MaxScan == 4

ScanTexts == UNION {[1..n -> ScanTokens] : n \in 0..MaxScan}

InitScan ==
    /\ wikitext \in ScanTexts
    /\ options = NoOptions
    /\ source = wikitext
    /\ pc = "scan"
    /\ ctx = NoCtx
    /\ deduped = <<>>
    /\ plan = NoPlan
    /\ result = NoResult
    /\ pass = 1
    /\ references = <<>>
    /\ refs = <<>>
    /\ pendingChanges = <<>>
    /\ editingRefId = Null
    /\ saved = "idle"
    /\ given = <<>>
    /\ scan = NoScan

\* One evaluation of the loop condition and of the loop body of findTemplates;
\* the loop is left when i reaches the end or no braces follow.
FindTemplatesStep ==
    /\ pc = "scan"
    /\ IF scan.i < Len(wikitext) /\ IndexOfBraces(wikitext, scan.i) # -1
       THEN /\ scan' = findTemplatesStep(wikitext, DEFAULT_REFLIST_TEMPLATES, scan)
            /\ pc' = "scan"
       ELSE /\ scan' = scan
            /\ pc' = "scanned"
    /\ UNCHANGED <<given, wikitext, options, ctx, deduped, plan, result, source, pass, panel>>

SpecScan == InitScan /\ [][FindTemplatesStep]_vars /\ WF_vars(FindTemplatesStep)

\* The braces opened and not yet closed after the atoms at offsets i to e - 1.
BraceDepth(text, i, e) ==
    Cardinality({j \in (i + 1)..e : text[j].k = "lopen"})
    - Cardinality({j \in (i + 1)..e : text[j].k = "lclose"})

\* The offset just past the }} that closes the template opened at offset i,
\* -1 when the template is never closed.
CloseOf(text, i) ==
    IF \E e \in (i + 1)..Len(text) : BraceDepth(text, i, e) = 0
    THEN CHOOSE e \in (i + 1)..Len(text) :
            /\ BraceDepth(text, i, e) = 0
            /\ \A f \in (i + 1)..(e - 1) : BraceDepth(text, i, f) # 0
    ELSE -1

IsListOpening(text, i) ==
    text[i + 1].k = "lopen" /\ text[i + 1].name \in DEFAULT_REFLIST_TEMPLATES

\* The matches are list templates that are closed, each with its extent, and
\* every list template that is closed and does not lie inside a match is one.
FoundExactly(text, matches) ==
    /\ \A m \in 1..Len(matches) :
          /\ IsListOpening(text, matches[m].start)
          /\ matches[m].end = CloseOf(text, matches[m].start)
    /\ \A i \in 0..(Len(text) - 1) :
          IsListOpening(text, i) /\ CloseOf(text, i) # -1
              => \E m \in 1..Len(matches) : matches[m].start <= i /\ i < matches[m].end

(***************************************************************************)
(* C24.  findTemplates ends on every text: each iteration of its loop      *)
(* moves the scan index forward, the loop is left, a list template that is *)
(* never closed yields no match and the list templates that are closed     *)
(* after it are found.                                                     *)
(***************************************************************************)
C24_FindTemplatesTerminates ==
    /\ [][scan'.i > scan.i]_scan
    /\ <>(pc = "scanned")
    /\ [](pc = "scanned" => /\ FoundExactly(wikitext, scan.matches)
                            /\ scan.matches = findTemplates(wikitext, DEFAULT_REFLIST_TEMPLATES))

\* The loop was left on a text that opens a list template without closing it
\* and holds a closed list template after it, which was matched.
C24_FoundAfterUnterminated ==
    /\ pc = "scanned"
    /\ \E i \in 0..(Len(wikitext) - 1) :
          /\ IsListOpening(wikitext, i)
          /\ CloseOf(wikitext, i) = -1
          /\ \E m \in 1..Len(scan.matches) : scan.matches[m].start > i

\* The names an atom cites, in the order it writes them.
CitedBy(a) ==
    IF a.k = "self" THEN (IF a.name # Null THEN <<a.name>> ELSE <<>>)
    ELSE IF a.k = "r"
    THEN [i \in 1..Len(SelectSeq(a.params, LAMBDA p : p.kb \in NameKeys)) |->
             SelectSeq(a.params, LAMBDA p : p.kb \in NameKeys)[i].val]
    ELSE <<>>

CitedNames(text) == Flatten([i \in 1..Len(text) |-> CitedBy(text[i])])

(***************************************************************************)
(* C25.  collapseRefsAndRp neither repeats nor drops a citation: the names *)
(* cited by the tokens of its result, in order, are the names cited by the *)
(* tokens of the text, also when a {{r}} is followed by an {{rp}} with a    *)
(* parameter other than page, pages, location or group.                    *)
(***************************************************************************)
C25_CitationsKept ==
    pc = "collapsed" => CitedNames(result.wikitext) = CitedNames(wikitext)

(***************************************************************************)
(* Runs of tags of which some carry a group and some are followed by an    *)
(* {{rp}} with a page.                                                     *)
(***************************************************************************)
ChainChunks ==
    {<<SelfA>>, <<SelfB>>, <<SelfBG>>, <<SelfA, RpP2>>, <<SelfBG, RpP2>>, <<RA>>, <<Ws>>}

InitChains == \E text \in Documents(ChainChunks, MaxChunks) : Call(text, CollapseOptions)

SpecChains == InitChains /\ [][Collapse]_vars

\* What the token at offset i binds to the names it cites: a tag its group
\* and the page, pages and location of the {{rp}} that follows it, a {{r}}
\* what parseRTemplateEntries reads for each of its names.
BoundAt(text, i) ==
    LET a == text[i + 1]
        rp == IF i + 1 < Len(text) /\ text[i + 2].k = "rp" THEN parseRp(text[i + 2])
              ELSE [page |-> Null, pages |-> Null, at |-> Null, group |-> Null, unsupported |-> FALSE]
    IN  IF a.k = "self" /\ a.name # Null
        THEN <<ChainItem(a.name, IF rp.group # Null THEN rp.group ELSE a.group,
                         rp.page, rp.pages, rp.at)>>
        ELSE IF a.k = "r" THEN rChainItems(parseRTemplateEntries(a.params))
        ELSE <<>>

Bindings(text) == Flatten([i \in 1..Len(text) |-> BoundAt(text, i - 1)])

(***************************************************************************)
(* C26.  The chained {{r}} that collapsing writes, read again by           *)
(* parseRTemplateEntries, binds each group, page, pages and location to   *)
(* the name it had in the source tokens, also when only a later name of   *)
(* the chain has a group and no name has a page, pages or location.        *)
(***************************************************************************)
C26_ChainBindings ==
    pc = "collapsed" => Bindings(result.wikitext) = Bindings(wikitext)

(***************************************************************************)
(* Texts with unnamed references of every sort: full tags in the running   *)
(* text, a self-closing tag, a tag inside a comment, a tag inside the      *)
(* refs= block of a reflist.  Every body occurs in one chunk only.  One    *)
(* unnamed reference is given a name, by the identity parseReferences      *)
(* gives it.                                                               *)
(***************************************************************************)
SelfU == SelfRef(Null, Null, "c")

FullUZ == FullRef(Null, Null, "c", <<"Z">>)

FullUW == FullRef(Null, Null, "c", <<"W">>)

NamelessChunks ==
    {<<FullUX>>, <<FullUY>>, <<SelfU>>, <<ComOpen, FullUZ, ComClose>>,
     LdrList(<<FullUW>>) \o <<Txt("t")>>, <<Txt("t")>>}

NamelessOptions ==
    {[NoOptions EXCEPT !.renameNameless = <<<<NamelessKey(k), "c">>>>] : k \in 0..(MaxChunks - 1)}

InitNameless ==
    \E text \in Documents(NamelessChunks, MaxChunks), opts \in NamelessOptions : Call(text, opts)

SpecNameless == InitNameless /\ [][Transform]_vars

\* The bodies of the tags of a text that carry the given name (a
\* self-closing tag has the empty body).
BodiesNamed(text, name) ==
    {(IF text[i].k = "full" THEN Trim(text[i].body) ELSE <<>>) :
        i \in {j \in 1..Len(text) : text[j].k \in {"full", "self"} /\ text[j].name = name}}

(***************************************************************************)
(* C27.  The unnamed reference that parseReferences lists with the id      *)
(* __nameless_k is the occurrence that transformWikitext names when        *)
(* renameNameless holds the key __nameless_k: the tag that carries the new *)
(* name in the result is the tag with the body listed under that id.       *)
(***************************************************************************)
C27_NamelessIdentity ==
    pc = "done"
        => \A e \in 1..Len(options.renameNameless) :
              \A i \in 1..Len(parseReferences(source)) :
                 parseReferences(source)[i].id = options.renameNameless[e][1]
                    => BodiesNamed(result.wikitext, options.renameNameless[e][2])
                          = {parseReferences(source)[i].contentWikitext}

(***************************************************************************)
(* The queue of the panel under edits only: names committed, edits         *)
(* cancelled, mass renames applied.                                        *)
(***************************************************************************)
NextQueue ==
    \/ \E i \in 1..Len(refs), newName \in PanelNames : commitRefName(i, newName)
    \/ \E i \in 1..Len(refs) : cancelEditRefName(i)
    \/ \E renameMap \in PanelRenameMaps, renameNameless \in PanelRenameNameless :
          applyMassRename(renameMap, renameNameless)

SpecQueue == InitPanel /\ [][NextQueue]_vars

FullBY == FullRef("b", Null, "c", Y)

RAB == RTpl(<<Param("", 0, "a"), Param("", 0, "b")>>)

RenameChunks ==
    {<<FullAX>>, <<FullBY>>, <<SelfA>>, <<SelfB>>, <<RA>>, <<RAB>>, <<Txt("t")>>,
     LdrList(<<FullAX, FullBY>>)}

SwapMap == <<<<"a", "b">>, <<"b", "a">>>>

ChainMap == <<<<"a", "b">>, <<"b", "c">>>>

RenameOptions ==
    {[NoOptions EXCEPT !.renameMap = m, !.useTemplateR = r] :
        m \in {SwapMap, ChainMap}, r \in BOOLEAN}

\* The texts of the family hold one reflist at most.
RenameTexts ==
    {text \in Documents(RenameChunks, MaxChunks) :
        Cardinality({i \in 1..Len(text) : text[i].k = "lopen"}) <= 1}

InitRenames == \E text \in RenameTexts, opts \in RenameOptions : Call(text, opts)

SpecRenames == InitRenames /\ [][Transform]_vars

\* The name a rename map gives a name: its entry in the map, or the name.
Substitute(m, name) == IF MapHas(m, name) THEN MapGet(m, name) ELSE name

\* The names the tokens of a text carry, in order: tags with and without
\* body, and the names of each {{r}}.
NamesCarried(text) ==
    Flatten([i \in 1..Len(text) |->
        IF text[i].k = "full" THEN (IF text[i].name # Null THEN <<text[i].name>> ELSE <<>>)
        ELSE CitedBy(text[i])])

(***************************************************************************)
(* C29.  renameMap is a substitution of all names at once, keyed by the    *)
(* names of the source: every tag and every {{r}} parameter carries the    *)
(* name the map gives its source name (with a -> b, b -> a the names are   *)
(* swapped; with a -> b, b -> c a becomes b and not c), the body defined   *)
(* under a name stays with the renamed reference, and no two records are   *)
(* merged.                                                                 *)
(***************************************************************************)
C29_SimultaneousRename ==
    pc = "done"
        => /\ NamesCarried(result.wikitext)
                = [i \in 1..Len(NamesCarried(source)) |->
                      Substitute(options.renameMap, NamesCarried(source)[i])]
           /\ \A n \in NamesIn(source) :
                 BodiesNamed(result.wikitext, Substitute(options.renameMap, n)) \ {<<>>}
                    = BodiesNamed(source, n) \ {<<>>}
           /\ Cardinality({ctx.refs[i].name : i \in 1..Len(ctx.refs)}) = Cardinality(NamesIn(source))

\* The names defined by a full tag inside the reflist templates of a text,
\* and by a full tag in its running text.
ListDefined(text) == {text[i + 1].name : i \in {j \in TemplateOffsets(text) : text[j + 1].k = "full"}}

InlineDefined(text) ==
    {text[i + 1].name :
        i \in {j \in (0..(Len(text) - 1)) \ TemplateOffsets(text) : text[j + 1].k = "full"}}

NoRepeat(s) == \A i, j \in 1..Len(s) : s[i] = s[j] => i = j

(***************************************************************************)
(* C30.  The change log is accurate: a name in changes.movedToInline is a  *)
(* reference defined in the list block of the input and in the running     *)
(* text of the output, a name in changes.movedToLdr one defined in the     *)
(* running text of the input and in the list block of the output, no name  *)
(* is reported twice, and a transform that moves no definition (a rename   *)
(* under keep) reports both lists empty.                                   *)
(***************************************************************************)
C30_ChangeLogAccurate ==
    pc = "done"
        => LET m == renameMapOf(options)
               toInline == result.changes.movedToInline
               toLdr == result.changes.movedToLdr
           IN  /\ \A k \in 1..Len(toInline) :
                     /\ \E n \in ListDefined(source) : Substitute(m, n) = toInline[k]
                     /\ toInline[k] \in InlineDefined(result.wikitext)
               /\ \A k \in 1..Len(toLdr) :
                     /\ \E n \in InlineDefined(source) : Substitute(m, n) = toLdr[k]
                     /\ toLdr[k] \in ListDefined(result.wikitext)
               /\ NoRepeat(toInline)
               /\ NoRepeat(toLdr)

====
